---- MODULE Spec2Model ----
(***************************************************************************)
(* Ground-truth construction and evaluation core of the ticket audit       *)
(* pipeline: the text mapper and the ground-truth builder of               *)
(* 6_build_ground_truth.py, the loaders of utils/data_loader.py, the two    *)
(* scoring modes of evaluate.py and the script 7_eval_recall_first.py.     *)
(*                                                                         *)
(* Each script is a sequential program; one behaviour of a specification   *)
(* is one run of one script on inputs drawn from bounded sets in its Init. *)
(* Texts are sequences of one-character strings, so that strip, lower and  *)
(* substring containment are computed and not assumed.                     *)
(***************************************************************************)
EXTENDS Integers, Sequences, FiniteSets, TLC

VARIABLES
    \* map_pattern_to_label, called on its own
    map_pc, pattern_text, label,
    \* 6_build_ground_truth.main
    build_pc, build_run, universe_csv, universe, excluded, overrides, patterns_df,
    row_i, rule_i, expected, unmapped_patterns, override_warnings,
    orphan_excluded, orphan_overrides,
    \* evaluate.main (mode "both": evaluate_recall_only, then evaluate_full)
    eval_pc, gt_csv, results_dir, gt_expected, tick_i,
    recall, full,
    \* 7_eval_recall_first.main (it reads gt_csv and results_dir as well)
    rf_pc, rf_i, recall_first,
    \* utils.data_loader.load_csv_context
    ctx_pc, ctx_csv, ctx_i, out,
    \* utils.llm_client.call_llm
    llm_pc, _retries, attempt, last_err, llm_trace, llm_result,
    \* llm_detect.main
    det_pc, force, ticket_ids, output_dir, to_process, det_i, result, ok, empty, malformed,
    \* run_pipeline.main
    pipe_pc, args, fs, steps_to_run, pipe_i, failed, pipe_trace, exit_status,
    \* utils.formatters._smart_select_interactions
    sel_pc, formatted, max_chars, selected

mapVars == <<map_pc, pattern_text, label>>
buildVars == <<build_pc, build_run, universe_csv, universe, excluded, overrides, patterns_df,
               row_i, rule_i, expected, unmapped_patterns, override_warnings,
               orphan_excluded, orphan_overrides>>
evalVars == <<eval_pc, gt_csv, results_dir, gt_expected, tick_i, recall, full>>
rfVars == <<rf_pc, rf_i, recall_first>>
ctxVars == <<ctx_pc, ctx_csv, ctx_i, out>>
llmVars == <<llm_pc, _retries, attempt, last_err, llm_trace, llm_result>>
detVars == <<det_pc, force, ticket_ids, output_dir, to_process, det_i, result, ok,
             empty, malformed>>
pipeVars == <<pipe_pc, args, fs, steps_to_run, pipe_i, failed, pipe_trace, exit_status>>
selVars == <<sel_pc, formatted, max_chars, selected>>
vars == <<mapVars, buildVars, evalVars, rfVars, ctxVars, llmVars, detVars, pipeVars, selVars>>

----------------------------------------------------------------------------
(* config.py: the pattern vocabulary                                        *)

OUR_PATTERNS ==
    << "AI_QUALITY_FAILURES", "AI_WALL_LOOPING", "IGNORING_CONTEXT",
       "RESPONSE_DELAYS", "PREMATURE_CLOSURE", "P1_SEV1_MISHANDLING" >>

\* set(OUR_PATTERNS)
OurPatternSet == { OUR_PATTERNS[i] : i \in DOMAIN OUR_PATTERNS }

\* Python's None, as returned by map_pattern_to_label
None == "None"

\* PATTERN_TEXT_MAPPING, in declaration (dict iteration) order
PATTERN_MAPPING ==
    <<
        [needle |-> <<"h","e","r","m","e","s"," ","a","n","s","w","e","r","s"," ","a","r","e"," ","j","u","s","t"," ","a"," ","f","i","l","l","e","r">>,
         label |-> "AI_QUALITY_FAILURES"],
        [needle |-> <<"a","i"," ","(","a","t","l","a","s","/","h","e","r","m","e","s",")"," ","p","r","o","v","i","d","e","s"," ","w","r","o","n","g"," ","i","n","f","o","r","m","a","t","i","o","n">>,
         label |-> "AI_QUALITY_FAILURES"],
        [needle |-> <<"a","i"," ","i","s"," ","p","r","o","m","i","s","s","i","n","g">>,
         label |-> "AI_QUALITY_FAILURES"],
        [needle |-> <<"c","u","s","t","o","m","e","r"," ","i","s"," ","e","x","p","r","e","s","s","i","n","g"," ","f","r","u","s","t","a","t","i","o","n">>,
         label |-> "AI_QUALITY_FAILURES"],
        [needle |-> <<"s","u","p","p","o","r","t"," ","a","g","e","n","t","s"," ","a","r","e"," ","n","o","t"," ","c","h","e","c","k","i","n","g"," ","p","a","s","t"," ","s","i","m","i","l","a","r"," ","t","i","c","k","e","t","s">>,
         label |-> "IGNORING_CONTEXT"],
        [needle |-> <<"a","f","t","e","r"," ","c","u","s","t","o","m","e","r"," ","p","r","o","v","i","d","e","d"," ","a","l","l"," ","t","h","e"," ","i","n","f","o","r","m","a","t","i","o","n">>,
         label |-> "IGNORING_CONTEXT"],
        [needle |-> <<"f","e","e","d","b","a","c","k"," ","o","n"," ","s","h","a","r","e","d"," ","p","a","t","c","h">>,
         label |-> "IGNORING_CONTEXT"],
        [needle |-> <<"w","i","t","h"," ","m","u","l","t","i","p","l","e"," ","i","s","s","u","e"," ","r","e","p","o","r","t","e","d"," ","i","n"," ","s","i","n","g","l","e"," ","t","i","c","k","e","t">>,
         label |-> "IGNORING_CONTEXT"],
        [needle |-> <<"s","u","p","p","o","r","t"," ","d","o","e","s"," ","n","o","t"," ","r","e","c","o","g","n","i","z","e"," ","r","e","c","u","r","r","i","n","g"," ","i","s","s","u","e"," ","p","a","t","t","e","r","n","s">>,
         label |-> "IGNORING_CONTEXT"],
        [needle |-> <<"c","u","s","t","o","m","e","r"," ","g","e","t","'","s"," ","l","o","c","k","e","d"," ","i","n"," ","a","n"," ","\"","a","i"," ","w","a","l","l","\"">>,
         label |-> "AI_WALL_LOOPING"],
        [needle |-> <<"a","i"," ","i","s"," ","r","e","q","u","e","s","t","i","n","g"," ","s","a","m","e"," ","i","n","f","o","r","m","a","t","i","o","n">>,
         label |-> "AI_WALL_LOOPING"],
        [needle |-> <<"t","i","c","k","e","t","s"," ","b","e","i","n","g"," ","c","l","o","s","e","d"," "," ","a","f","t","e","r"," ","7"," ","d","a","y","s">>,
         label |-> "PREMATURE_CLOSURE"],
        [needle |-> <<"c","h","a","t"," ","c","o","n","v","e","r","s","a","t","i","o","n","s"," ","a","r","e"," ","c","l","o","s","e","d"," ","p","r","e","m","a","t","u","r","a","l","y">>,
         label |-> "PREMATURE_CLOSURE"],
        [needle |-> <<"a","i"," ","r","e","s","o","l","u","t","i","o","n"," ","i","s"," ","h","i","g","h"," ","b","e","c","a","u","s","e"," ","c","u","s","t","o","m","e","r"," ","g","i","v","e"," ","u","p">>,
         label |-> "PREMATURE_CLOSURE"],
        [needle |-> <<"s","l","o","w"," ","a","i","/","a","g","e","n","t"," ","r","e","s","p","o","s","n","e","s"," ","w","i","t","h"," ","g","a","p","s">>,
         label |-> "RESPONSE_DELAYS"],
        [needle |-> <<"t","i","c","k","e","t"," ","a","u","t","o","m","a","t","i","o","n"," ","m","a","l","f","u","n","c","t","i","o","n","i","n","g">>,
         label |-> "RESPONSE_DELAYS"],
        [needle |-> <<"a","i","/","a","t","l","a","s"," ","r","e","s","p","o","n","d","s"," ","t","o"," ","s","e","v","1","/","p","1"," ","o","u","t","a","g","e","s"," ","w","i","t","h"," ","g","e","n","e","r","i","c">>,
         label |-> "P1_SEV1_MISHANDLING"],
        [needle |-> <<"s","u","p","p","o","r","t"," ","c","o","n","s","i","s","t","e","n","t","l","y"," ","b","e","g","i","n","s"," ","w","i","t","h"," ","c","u","s","t","o","m","e","r"," ","e","n","v","i","r","o","n","m","e","n","t"," ","i","n","v","e","s","t","i","g","a","t","i","o","n">>,
         label |-> "P1_SEV1_MISHANDLING"],
        [needle |-> <<"s","e","v","1","/","p","1"," ","p","l","a","t","f","o","r","m"," ","i","s","s","u","e","s"," ","s","p","e","n","d"," ","m","u","l","t","i","p","l","e"," ","d","a","y","s">>,
         label |-> "P1_SEV1_MISHANDLING"]
    >>

----------------------------------------------------------------------------
(* str.strip, str.lower and the `in` operator on strings                    *)

\* the characters str.strip() removes, as far as the inputs use them
Whitespace == {" ", "\t", "\n"}

LowerChar(c) ==
    CASE c = "A" -> "a" [] c = "B" -> "b" [] c = "C" -> "c" [] c = "D" -> "d"
      [] c = "E" -> "e" [] c = "F" -> "f" [] c = "G" -> "g" [] c = "H" -> "h"
      [] c = "I" -> "i" [] c = "J" -> "j" [] c = "K" -> "k" [] c = "L" -> "l"
      [] c = "M" -> "m" [] c = "N" -> "n" [] c = "O" -> "o" [] c = "P" -> "p"
      [] c = "Q" -> "q" [] c = "R" -> "r" [] c = "S" -> "s" [] c = "T" -> "t"
      [] c = "U" -> "u" [] c = "V" -> "v" [] c = "W" -> "w" [] c = "X" -> "x"
      [] c = "Y" -> "y" [] c = "Z" -> "z"
      [] OTHER -> c

lower(s) == [i \in 1..Len(s) |-> LowerChar(s[i])]

strip(s) ==
    LET keep == { i \in 1..Len(s) : s[i] \notin Whitespace }
    IN  IF keep = {} THEN <<>>
        ELSE LET lo == CHOOSE i \in keep : \A j \in keep : i <= j
                 hi == CHOOSE i \in keep : \A j \in keep : j <= i
             IN  SubSeq(s, lo, hi)

\* needle in p
Contains(needle, p) ==
    \E i \in 1..(Len(p) - Len(needle) + 1) :
        \A j \in 1..Len(needle) : p[i + j - 1] = needle[j]

----------------------------------------------------------------------------
(* 6_build_ground_truth.map_pattern_to_label                                *)

\* a plausible slip: the table is scanned in declaration order, unsorted
sorted_mappings_unsorted == PATTERN_MAPPING

\* sorted(PATTERN_MAPPING.items(), key=lambda x: len(x[0]), reverse=True):
\* longest needle first; the sort is stable, equal lengths keep their order
sorted_mappings ==
    LET n == Len(PATTERN_MAPPING)
        before(i, j) ==
            \/ Len(PATTERN_MAPPING[i].needle) > Len(PATTERN_MAPPING[j].needle)
            \/ /\ Len(PATTERN_MAPPING[i].needle) = Len(PATTERN_MAPPING[j].needle)
               /\ i < j
        rank(i) == 1 + Cardinality({ j \in 1..n : before(j, i) })
    IN  [k \in 1..n |-> PATTERN_MAPPING[CHOOSE i \in 1..n : rank(i) = k]]

map_pattern_to_label(text) ==
    LET p == lower(strip(text))
    IN  IF p = <<>> THEN None
        ELSE LET hits == { k \in DOMAIN sorted_mappings :
                             Contains(sorted_mappings[k].needle, p) }
             IN  IF hits = {} THEN None
                 ELSE sorted_mappings[CHOOSE k \in hits : \A m \in hits : k <= m].label

----------------------------------------------------------------------------
(* Inputs of the mapper: texts glued from at most MaxPieces pieces          *)

MaxPieces == 2

Needle(i) == PATTERN_MAPPING[i].needle

TextPieces ==
    { Needle(3), Needle(7), Needle(16), Needle(1),
      <<"A","I"," ","I","S"," ","P","R","O","M","I","S","S","I","N","G">>,
      <<"a","i"," ","i","s"," ","p","r","o","m","i","s","s","i","n">>,
      <<" ">>, <<"z","z">> }

RECURSIVE Glue(_)
Glue(ps) == IF ps = <<>> THEN <<>> ELSE Head(ps) \o Glue(Tail(ps))

Texts == { Glue(ps) : ps \in UNION { [1..n -> TextPieces] : n \in 0..MaxPieces } }

----------------------------------------------------------------------------
(* 6_build_ground_truth.py: helpers of main                                 *)

\* _clean(v) or "": the stripped text, "" for an empty or null-like cell
clean_or_empty(v) ==
    LET s == strip(v)
    IN  IF s = <<>> \/ lower(s) \in { <<"n","a","n">>, <<"n","o","n","e">>,
                                      <<"n","u","l","l">> }
        THEN <<>> ELSE s

\* the ticket ids of one matrix row: extract_ticket_ids over every brand column
RowTicketIds(row) == UNION { row.cells[c] : c \in DOMAIN row.cells }

\* a plausible slip: the label replaces what the ticket had accumulated
AddLabel_overwrite(exp, tids, lab) ==
    [t \in DOMAIN exp \cup tids |-> IF t \in tids THEN {lab} ELSE exp[t]]

\* expected[tid].add(label) for every id of the row (expected is a defaultdict(set))
AddLabel(exp, tids, lab) ==
    [t \in DOMAIN exp \cup tids |->
        IF t \in tids
        THEN (IF t \in DOMAIN exp THEN exp[t] ELSE {}) \cup {lab}
        ELSE exp[t]]

\* a plausible slip: a plain dict assignment, the count starts over at 1
Bump_assign(counter, key) ==
    [k \in DOMAIN counter \cup {key} |-> IF k = key THEN 1 ELSE counter[k]]

\* the whole loop `for _, row in patterns_df.iterrows()` as a function of the
\* matrix: the seeds before the filter
RECURSIVE SeedLoop(_, _, _)
SeedLoop(rows, i, exp) ==
    IF i > Len(rows) THEN exp
    ELSE LET lab == map_pattern_to_label(clean_or_empty(rows[i].pattern))
         IN  SeedLoop(rows, i + 1,
                      IF lab = None THEN exp
                      ELSE AddLabel(exp, RowTicketIds(rows[i]), lab))

\* Counter increment
Bump(counter, key) ==
    [k \in DOMAIN counter \cup {key} |->
        IF k = key THEN (IF k \in DOMAIN counter THEN counter[k] ELSE 0) + 1
        ELSE counter[k]]

\* plausible slips of the filter: one of its two conditions is missing
FilterSeeds_no_universe(exp, univ, excl) ==
    [t \in { u \in DOMAIN exp : u \notin excl } |-> exp[t]]

FilterSeeds_no_exclusion(exp, univ, excl) ==
    [t \in { u \in DOMAIN exp : u \in univ } |-> exp[t]]

\* expected = {tid: set(labels) ... if tid in universe and tid not in excluded}
FilterSeeds(exp, univ, excl) ==
    [t \in { u \in DOMAIN exp : u \in univ /\ u \notin excl } |-> exp[t]]

\* plausible slips of the skip conditions of the override loop
RuleApplies_no_universe(tid, univ, excl) == tid \notin excl

RuleApplies_no_exclusion(tid, univ, excl) == tid \in univ

\* the two `continue`s at the head of the override loop
RuleApplies(tid, univ, excl) == tid \in univ /\ tid \notin excl

\* set(rule[key]) - set(OUR_PATTERNS)
invalid_labels(labels) == labels \ OurPatternSet

\* plausible slips: the keep list is taken unvalidated / merged into the base
KeepLabels_unfiltered(base, rule) == rule.keep

KeepLabels_merged(base, rule) == base \cup (rule.keep \cap OurPatternSet)

\* expected[tid] = set(rule["keep"]) & set(OUR_PATTERNS)
KeepLabels(base, rule) == rule.keep \cap OurPatternSet

\* a plausible slip: the add list is taken unvalidated
AddLabels_unfiltered(rule) == rule.add

\* set(rule["add"]) & set(OUR_PATTERNS)
AddLabels(rule) == rule.add \cap OurPatternSet

\* has_keep / has_remove / has_add after the mutual-exclusion check
has_keep(rule) == "keep" \in rule.keys
has_remove(rule) == "remove" \in rule.keys /\ ~has_keep(rule)
has_add(rule) == "add" \in rule.keys /\ ~has_keep(rule)
keep_combined(rule) ==
    "keep" \in rule.keys /\ ("remove" \in rule.keys \/ "add" \in rule.keys)

\* a plausible slip: `add` is applied before `remove`
RuleLabels_add_first(base, rule) ==
    IF has_keep(rule) THEN KeepLabels(base, rule)
    ELSE LET added == IF has_add(rule) THEN base \cup AddLabels(rule) ELSE base
         IN  IF has_remove(rule) THEN added \ rule.remove ELSE added

\* the label set one applied rule leaves for its ticket, from the base set
RuleLabels(base, rule) ==
    IF has_keep(rule) THEN KeepLabels(base, rule)
    ELSE LET removed == IF has_remove(rule) THEN base \ rule.remove ELSE base
         IN  IF has_add(rule) THEN removed \cup AddLabels(rule) ELSE removed

\* a plausible slip: a rule is applied only to a ticket the matrix seeded
ApplyRule_seeded_only(exp, tid, rule) ==
    IF tid \in DOMAIN exp
    THEN [t \in DOMAIN exp |-> IF t = tid THEN RuleLabels(exp[tid], rule) ELSE exp[t]]
    ELSE exp

\* expected.setdefault(tid, set()), then the keep / remove / add assignments
ApplyRule(exp, tid, rule) ==
    [t \in DOMAIN exp \cup {tid} |->
        IF t = tid THEN RuleLabels(IF tid \in DOMAIN exp THEN exp[tid] ELSE {}, rule)
        ELSE exp[t]]

\* a plausible slip: invalid labels of `add` are filtered without a warning
AddWarnings_silent(tid, rule) == <<>>

\* the warning the add branch appends
AddWarnings(tid, rule) ==
    IF has_add(rule) /\ invalid_labels(rule.add) # {}
    THEN << [tid |-> tid, kind |-> "invalid_add", labels |-> invalid_labels(rule.add)] >>
    ELSE <<>>

\* a plausible slip: the keep/remove/add conflict is resolved without a warning
CombinedWarnings_silent(tid, rule) == <<>>

\* the warning of the mutual-exclusion check
CombinedWarnings(tid, rule) ==
    IF keep_combined(rule)
    THEN << [tid |-> tid, kind |-> "keep_combined", labels |-> {}] >>
    ELSE <<>>

\* the warnings one applied rule appends to override_warnings, in order
RuleWarnings(tid, rule) ==
    CombinedWarnings(tid, rule)
    \o (IF has_keep(rule) /\ invalid_labels(rule.keep) # {}
        THEN << [tid |-> tid, kind |-> "invalid_keep",
                 labels |-> invalid_labels(rule.keep)] >>
        ELSE <<>>)
    \o AddWarnings(tid, rule)

\* sorted(labels): the labels in lexicographic order
LabelOrder ==
    << "AI_QUALITY_FAILURES", "AI_WALL_LOOPING", "IGNORING_CONTEXT",
       "NOT_A_REAL_LABEL", "P1_SEV1_MISHANDLING", "PREMATURE_CLOSURE",
       "RESPONSE_DELAYS" >>

RECURSIVE SortedFrom(_, _)
SortedFrom(labels, i) ==
    IF i > Len(LabelOrder) THEN <<>>
    ELSE (IF LabelOrder[i] \in labels THEN <<LabelOrder[i]>> ELSE <<>>)
         \o SortedFrom(labels, i + 1)

SortedLabels(labels) == SortedFrom(labels, 1)

\* sorted(expected.keys()), ticket ids being integers
RECURSIVE SortedIds(_)
SortedIds(ids) ==
    IF ids = {} THEN <<>>
    ELSE LET m == CHOOSE x \in ids : \A y \in ids : x <= y
         IN  <<m>> \o SortedIds(ids \ {m})

\* the rows of ground_truth_expected.csv: "Ticket ID" and "Expected Labels"
OutRows(exp) ==
    LET ids == SortedIds(DOMAIN exp)
    IN  [i \in 1..Len(ids) |->
            [ticket_id |-> ids[i], labels |-> SortedLabels(exp[ids[i]])]]

----------------------------------------------------------------------------
(* 6_build_ground_truth.main: inputs                                        *)

\* a label outside the vocabulary, as a typo in an override file would give
InvalidLabel == "NOT_A_REAL_LABEL"

\* ticket ids of the builder's inputs (6 to 9 digits, as TICKET_ID_RE asks)
BuildTids == {100001, 100002}

\* rows of Patterns.csv: a description and, per brand column, the ids found in it
RowPool ==
    { [pattern |-> Needle(11), cells |-> << {100001}, {100002} >>],
      [pattern |-> <<" ">> \o Needle(16), cells |-> << {100001}, {} >>],
      [pattern |-> <<"z","z">>, cells |-> << {100002}, {} >>] }

\* a row without a description (a spacer line of the sheet) that names a ticket,
\* and a row whose description is the word "none"
SpacerRow == [pattern |-> <<" ">>, cells |-> << {100001}, {} >>]
NoneRow == [pattern |-> <<"n","o","n","e">>, cells |-> << {100002}, {} >>]

MaxRows == 2

\* the matrix: at most MaxRows rows, the first of which may be one of the two
\* rows above
PatternTables ==
    UNION { [1..n -> RowPool] : n \in 0..MaxRows }
    \cup { <<first>> \o t : first \in {SpacerRow, NoneRow},
                            t \in UNION { [1..n -> RowPool] : n \in 0..(MaxRows - 1) } }

\* label lists of override rules
ListPool == { {"AI_WALL_LOOPING"}, {InvalidLabel}, {"RESPONSE_DELAYS", InvalidLabel} }

RuleKeys == {"keep", "remove", "add"}

\* an override rule: the keys present in it and their lists (as sets; the code
\* only ever takes set(rule[key])); the list of an absent key is never read
RulePool ==
    { [ticket_id |-> t, keys |-> ks,
       keep |-> IF "keep" \in ks THEN k ELSE {},
       remove |-> IF "remove" \in ks THEN r ELSE {},
       add |-> IF "add" \in ks THEN a ELSE {}] :
        t \in BuildTids, ks \in SUBSET RuleKeys,
        k \in ListPool, r \in ListPool, a \in ListPool }

\* rules that only keep, or only add, a valid and an invalid label
SmallRulePool ==
    { x \in RulePool :
        /\ x.keys \in { {"keep"}, {"add"} }
        /\ x.keep \cup x.add = {"RESPONSE_DELAYS", InvalidLabel} }

\* the override dict, in iteration order (one rule per ticket id): no rule,
\* any one rule, or one small rule for each of the two tickets
OverrideTables ==
    {<<>>}
    \cup { <<rule>> : rule \in RulePool }
    \cup { t \in { <<r, s>> : r \in SmallRulePool, s \in SmallRulePool } :
             t[1].ticket_id # t[2].ticket_id }

EmptyMap == [x \in {} |-> {}]

\* int(text): decimal digits only, as far as the inputs go
Digits == {"0", "1", "2", "3", "4", "5", "6", "7", "8", "9"}

DigitValue(c) ==
    CASE c = "0" -> 0 [] c = "1" -> 1 [] c = "2" -> 2 [] c = "3" -> 3
      [] c = "4" -> 4 [] c = "5" -> 5 [] c = "6" -> 6 [] c = "7" -> 7
      [] c = "8" -> 8 [] c = "9" -> 9

IsDigits(s) == s # <<>> /\ \A i \in DOMAIN s : s[i] \in Digits

RECURSIVE ToInt(_)
ToInt(s) ==
    IF s = <<>> THEN 0
    ELSE 10 * ToInt(SubSeq(s, 1, Len(s) - 1)) + DigitValue(s[Len(s)])

\* "Ticket ID" cells of Full_Ticket_Data: two ids, a blank cell (a row that
\* holds other columns only) and the text of a footer row
Cell100001 == <<"1","0","0","0","0","1">>
Cell100002 == <<"1","0","0","0","0","2">>
CellBlank == <<>>
CellTotal == <<"T","o","t","a","l">>

\* the "Ticket ID" column of the universe file, as the builder reads it
UniverseCsvs ==
    { <<>>, <<Cell100001>>, <<Cell100002>>, <<Cell100001, Cell100002>>,
      <<Cell100001, CellBlank>>, <<Cell100001, CellTotal>> }

\* universe_df["Ticket ID"].astype(int): pandas reads a column with a blank cell
\* as floats with NaN and a column with a text cell as objects; the cast raises
\* on the NaN and on the text, whatever the other rows hold
AstypeIntRaises(column) == \E i \in DOMAIN column : ~IsDigits(column[i])

\* a plausible slip: a run that resumes, leaving out the tickets the output
\* file already holds
LoadUniverse_pending(column, artifact) ==
    { ToInt(column[i]) : i \in DOMAIN column }
        \ { artifact[i].ticket_id : i \in DOMAIN artifact }

\* universe = set(universe_df["Ticket ID"].tolist()): the ids of UNIVERSE_FILE;
\* OUT_CSV (the artifact) is only ever written, at the end of main
LoadUniverse(column, artifact) == { ToInt(column[i]) : i \in DOMAIN column }

----------------------------------------------------------------------------
(* 6_build_ground_truth.main: steps                                         *)

\* the universe load: read_csv, astype(int), set(...)
BuildUniverse ==
    /\ build_pc = "universe"
    /\ IF AstypeIntRaises(universe_csv)
       THEN /\ build_pc' = "raised"
            /\ universe' = universe
       ELSE /\ universe' = LoadUniverse(universe_csv, gt_csv)
            /\ build_pc' = "rows"
    /\ UNCHANGED <<build_run, universe_csv, excluded, overrides, patterns_df, row_i, rule_i,
                   expected, unmapped_patterns, override_warnings, orphan_excluded,
                   orphan_overrides>>
    /\ UNCHANGED <<mapVars, evalVars, rfVars, ctxVars, llmVars, detVars, pipeVars, selVars>>

\* one iteration of `for _, row in patterns_df.iterrows()`
BuildRow ==
    /\ build_pc = "rows"
    /\ row_i < Len(patterns_df)
    /\ LET row == patterns_df[row_i + 1]
           text == clean_or_empty(row.pattern)
           lab == map_pattern_to_label(text)
       IN  IF lab = None
           THEN /\ unmapped_patterns' =
                      IF strip(text) # <<>> THEN Bump(unmapped_patterns, strip(text))
                      ELSE unmapped_patterns
                /\ expected' = expected
           ELSE /\ expected' = AddLabel(expected, RowTicketIds(row), lab)
                /\ unmapped_patterns' = unmapped_patterns
    /\ row_i' = row_i + 1
    /\ UNCHANGED <<build_pc, build_run, universe_csv, universe, excluded, overrides, patterns_df, rule_i,
                   override_warnings, orphan_excluded, orphan_overrides>>
    /\ UNCHANGED <<mapVars, evalVars, rfVars, ctxVars, llmVars, detVars, pipeVars, selVars>>

\* the filter to the universe and the explicit exclusions, after the last row
BuildFilter ==
    /\ build_pc = "rows"
    /\ row_i = Len(patterns_df)
    /\ expected' = FilterSeeds(expected, universe, excluded)
    /\ build_pc' = "overrides"
    /\ UNCHANGED <<build_run, universe_csv, universe, excluded, overrides, patterns_df, row_i, rule_i,
                   unmapped_patterns, override_warnings, orphan_excluded,
                   orphan_overrides>>
    /\ UNCHANGED <<mapVars, evalVars, rfVars, ctxVars, llmVars, detVars, pipeVars, selVars>>

\* one iteration of `for tid, rule in overrides.items()`
BuildOverride ==
    /\ build_pc = "overrides"
    /\ rule_i < Len(overrides)
    /\ LET rule == overrides[rule_i + 1]
           tid == rule.ticket_id
       IN  IF RuleApplies(tid, universe, excluded)
           THEN /\ expected' = ApplyRule(expected, tid, rule)
                /\ override_warnings' = override_warnings \o RuleWarnings(tid, rule)
           ELSE UNCHANGED <<expected, override_warnings>>
    /\ rule_i' = rule_i + 1
    /\ UNCHANGED <<build_pc, build_run, universe_csv, universe, excluded, overrides, patterns_df, row_i,
                   unmapped_patterns, orphan_excluded, orphan_overrides>>
    /\ UNCHANGED <<mapVars, evalVars, rfVars, ctxVars, llmVars, detVars, pipeVars, selVars>>

\* the output: ground_truth_expected.csv and the orphan diagnostics
BuildReport ==
    /\ build_pc = "overrides"
    /\ rule_i = Len(overrides)
    /\ gt_csv' = OutRows(expected)
    /\ orphan_excluded' = SortedIds({ t \in excluded : t \notin universe })
    /\ orphan_overrides' =
          SortedIds({ overrides[i].ticket_id : i \in DOMAIN overrides } \ universe)
    /\ build_pc' = "done"
    /\ UNCHANGED <<build_run, universe_csv, universe, excluded, overrides, patterns_df, row_i, rule_i,
                   expected, unmapped_patterns, override_warnings>>
    /\ UNCHANGED <<mapVars, eval_pc, results_dir, gt_expected, tick_i, recall, full>>
    /\ UNCHANGED <<rfVars, ctxVars, llmVars, detVars, pipeVars, selVars>>

BuildNext == BuildUniverse \/ BuildRow \/ BuildFilter \/ BuildOverride \/ BuildReport

\* the script is started a second time on the same input files: main's locals
\* start afresh, the files on disk (inputs and the written output) are as the
\* first run left them
BuildRerun ==
    /\ build_pc \in {"done", "raised"}
    /\ build_run = 1
    /\ build_run' = 2
    /\ build_pc' = "universe"
    /\ universe' = {}
    /\ row_i' = 0 /\ rule_i' = 0
    /\ expected' = EmptyMap /\ unmapped_patterns' = EmptyMap
    /\ override_warnings' = <<>>
    /\ orphan_excluded' = <<>> /\ orphan_overrides' = <<>>
    /\ UNCHANGED <<universe_csv, excluded, overrides, patterns_df>>
    /\ UNCHANGED <<mapVars, evalVars, rfVars, ctxVars, llmVars, detVars, pipeVars, selVars>>

----------------------------------------------------------------------------
(* utils/data_loader.py                                                     *)

\* one top-level value of a prediction object: the key may be missing, the
\* value may be a dict (with its `detected` entry) or anything else
BlockTrue == [kind |-> "dict", detected |-> "True"]
BlockFalse == [kind |-> "dict", detected |-> "False"]
BlockStrTrue == [kind |-> "dict", detected |-> "'true'"]
BlockNoDetected == [kind |-> "dict", detected |-> "missing"]
BlockNotDict == [kind |-> "other", detected |-> "missing"]
BlockMissing == [kind |-> "missing", detected |-> "missing"]

\* a plausible slip: any truthy `detected` counts ("true" the string included)
IsDetected_truthy(block) ==
    block.kind = "dict" /\ block.detected \in {"True", "'true'"}

\* isinstance(block, dict) and block.get("detected") is True
IsDetected(block) == block.kind = "dict" /\ block.detected = "True"

\* json.loads(...) raises on unparsable text; data.get raises on a non-object
LoadRaises(file) == file.json # "object"

load_predicted_labels(file) ==
    { OUR_PATTERNS[i] : i \in { j \in DOMAIN OUR_PATTERNS :
                                  IsDetected(file.data[OUR_PATTERNS[j]]) } }

\* expected[tid] = ...: a dict keeps the position of a key it already holds
Put(d, tid, labels) ==
    IF \E j \in DOMAIN d : d[j].ticket_id = tid
    THEN [j \in DOMAIN d |->
            IF d[j].ticket_id = tid THEN [ticket_id |-> tid, labels |-> labels]
            ELSE d[j]]
    ELSE Append(d, [ticket_id |-> tid, labels |-> labels])

\* a plausible slip: the labels of the CSV are taken unvalidated
RowLabels_unfiltered(row) == { row.labels[i] : i \in DOMAIN row.labels }

\* {x for x in set(json.loads(labels_raw)) if x in OUR_PATTERNS}
RowLabels(row) ==
    { x \in { row.labels[i] : i \in DOMAIN row.labels } : x \in OurPatternSet }

RECURSIVE LoadRows(_, _, _)
LoadRows(csv, i, d) ==
    IF i > Len(csv) THEN d
    ELSE LoadRows(csv, i + 1, Put(d, csv[i].ticket_id, RowLabels(csv[i])))

\* the dict returned, as the sequence of its items in iteration order
load_expected_labels(csv) == LoadRows(csv, 1, <<>>)

----------------------------------------------------------------------------
(* evaluate.py: arithmetic. Ratios are kept exact, as reduced fractions.    *)

RECURSIVE GCD(_, _)
GCD(a, b) == IF b = 0 THEN a ELSE GCD(b, a % b)

\* the outcome of a division by zero: Python raises ZeroDivisionError, which
\* every later operation on the value passes on
ZeroDivisionError == [num |-> 0, den |-> 0]

Frac(n, d) ==
    IF d = 0 THEN ZeroDivisionError
    ELSE LET g == GCD(n, d) IN [num |-> n \div g, den |-> d \div g]

Zero == [num |-> 0, den |-> 1]

FromInt(n) == [num |-> n, den |-> 1]

FracAdd(a, b) == Frac(a.num * b.den + b.num * a.den, a.den * b.den)

FracMul(a, b) == Frac(a.num * b.num, a.den * b.den)

\* num / den
FracDiv(num, den) == Frac(num.num * den.den, num.den * den.num)

\* a plausible slip: a zero denominator is not guarded (the division raises)
safe_div_unguarded(num, den) == FracDiv(num, den)

\* return num / den if den else 0.0
safe_div(num, den) == IF den.num = 0 THEN Zero ELSE FracDiv(num, den)

RECURSIVE SumOver(_, _)
SumOver(f, keys) ==
    IF keys = {} THEN 0
    ELSE LET k == CHOOSE x \in keys : TRUE IN f[k] + SumOver(f, keys \ {k})

ZeroCounter == [p \in OurPatternSet |-> 0]

In01(x, S) == IF x \in S THEN 1 ELSE 0

----------------------------------------------------------------------------
(* evaluate.evaluate_recall_only                                            *)

RecallInit ==
    [expected_counts |-> ZeroCounter, hit_counts |-> ZeroCounter,
     missed_by_label |-> [p \in OurPatternSet |-> <<>>],
     missing_result_files |-> <<>>,
     tickets_full_covered |-> 0, tickets_with_any_expected |-> 0,
     pred |-> {},
     total_expected |-> 0, total_hit |-> 0,
     overall_recall |-> Zero, ticket_coverage |-> Zero,
     per_label |-> [p \in OurPatternSet |-> Zero]]

\* a slip the docstring warns of: a ticket without a result file is skipped
RecallMissing_skipped(r, tid, exp) == r

\* the branch `if not result_file.exists()`
RecallMissing(r, tid, exp) ==
    [r EXCEPT
        !.missing_result_files = Append(@, tid),
        !.expected_counts = [p \in OurPatternSet |-> @[p] + In01(p, exp)],
        !.missed_by_label =
            [p \in OurPatternSet |-> IF p \in exp THEN Append(@[p], tid) ELSE @[p]]]

\* a plausible slip: full coverage asks for equality, extra predictions spoil it
IsFullyCovered_exact(exp, pred) == exp = pred

\* exp.issubset(pred)
IsFullyCovered(exp, pred) == exp \subseteq pred

\* the scoring of a ticket whose result file was loaded
RecallScored(r, tid, exp, pred) ==
    [r EXCEPT
        !.pred = pred,
        !.expected_counts = [p \in OurPatternSet |-> @[p] + In01(p, exp)],
        !.hit_counts = [p \in OurPatternSet |-> @[p] + In01(p, exp \cap pred)],
        !.missed_by_label =
            [p \in OurPatternSet |->
                IF p \in exp \ pred THEN Append(@[p], tid) ELSE @[p]],
        !.tickets_full_covered = @ + (IF IsFullyCovered(exp, pred) THEN 1 ELSE 0)]

\* a plausible slip: the `if not exp: continue` at the head of the loop is missing
RecallTicket_counts_empty(r, tid, exp, file) ==
    LET r1 == [r EXCEPT !.tickets_with_any_expected = @ + 1]
    IN  IF ~file.exists THEN RecallMissing(r1, tid, exp)
        ELSE RecallScored(r1, tid, exp, load_predicted_labels(file))

\* one iteration of `for tid, exp in expected.items()`, file readable or absent
RecallTicket(r, tid, exp, file) ==
    IF exp = {} THEN r
    ELSE LET r1 == [r EXCEPT !.tickets_with_any_expected = @ + 1]
         IN  IF ~file.exists THEN RecallMissing(r1, tid, exp)
             ELSE RecallScored(r1, tid, exp, load_predicted_labels(file))

\* the metrics after the loop
RecallMetrics(r) ==
    LET total_expected == SumOver(r.expected_counts, OurPatternSet)
        total_hit == SumOver(r.hit_counts, OurPatternSet)
    IN  [r EXCEPT
            !.total_expected = total_expected,
            !.total_hit = total_hit,
            !.overall_recall = safe_div(FromInt(total_hit), FromInt(total_expected)),
            !.ticket_coverage = safe_div(FromInt(r.tickets_full_covered),
                                         FromInt(r.tickets_with_any_expected)),
            !.per_label = [p \in OurPatternSet |->
                safe_div(FromInt(r.hit_counts[p]), FromInt(r.expected_counts[p]))]]

\* evaluate_recall_only as a function of its two arguments: the loop, then
\* the metrics; a result file that does not load raises out of the function
RECURSIVE RecallLoop(_, _, _, _)
RecallLoop(items, dir, i, r) ==
    IF i > Len(items) THEN [raised |-> FALSE, result |-> RecallMetrics(r)]
    ELSE LET item == items[i]
             file == dir[item.ticket_id]
         IN  IF item.labels # {} /\ file.exists /\ LoadRaises(file)
             THEN [raised |-> TRUE, result |-> r]
             ELSE RecallLoop(items, dir, i + 1,
                             RecallTicket(r, item.ticket_id, item.labels, file))

evaluate_recall_only(items, dir) == RecallLoop(items, dir, 1, RecallInit)

----------------------------------------------------------------------------
(* evaluate.evaluate_full                                                   *)

FullInit ==
    [micro_tp |-> 0, micro_fp |-> 0, micro_fn |-> 0,
     tp |-> ZeroCounter, fp |-> ZeroCounter, fn |-> ZeroCounter,
     support |-> ZeroCounter,
     missing_result_files |-> <<>>,
     pred |-> {},
     micro_precision |-> Zero, micro_recall |-> Zero, micro_f1 |-> Zero,
     per_label |-> [p \in OurPatternSet |->
                      [precision |-> Zero, recall |-> Zero, f1 |-> Zero]],
     macro_f1 |-> Zero]

\* pred: the empty set for a missing file, the loaded labels otherwise
FullPredicted(file) ==
    IF ~file.exists THEN {} ELSE load_predicted_labels(file)

\* a plausible slip: a label predicted but not expected is not counted
IsFalsePositive_never(exp_has, pred_has) == FALSE

\* a plausible slip: every predicted label is counted as a true positive
IsTruePositive_predicted(exp_has, pred_has) == pred_has

\* a plausible slip: an expected label that was not predicted is not counted
IsFalseNegative_never(exp_has, pred_has) == FALSE

\* the three branches of the per-label classification
IsTruePositive(exp_has, pred_has) == pred_has /\ exp_has
IsFalsePositive(exp_has, pred_has) == pred_has /\ ~exp_has
IsFalseNegative(exp_has, pred_has) == ~pred_has /\ exp_has

\* the loop over OUR_PATTERNS for one ticket
FullScored(f, tid, exp, file) ==
    LET pred == FullPredicted(file)
        TP == { p \in OurPatternSet : IsTruePositive(p \in exp, p \in pred) }
        FP == { p \in OurPatternSet : IsFalsePositive(p \in exp, p \in pred) }
        FN == { p \in OurPatternSet : IsFalseNegative(p \in exp, p \in pred) }
    IN  [f EXCEPT
            !.pred = pred,
            !.missing_result_files = IF ~file.exists THEN Append(@, tid) ELSE @,
            !.support = [p \in OurPatternSet |-> @[p] + In01(p, exp)],
            !.tp = [p \in OurPatternSet |-> @[p] + In01(p, TP)],
            !.fp = [p \in OurPatternSet |-> @[p] + In01(p, FP)],
            !.fn = [p \in OurPatternSet |-> @[p] + In01(p, FN)],
            !.micro_tp = @ + Cardinality(TP),
            !.micro_fp = @ + Cardinality(FP),
            !.micro_fn = @ + Cardinality(FN)]

\* a slip the docstring warns of: a ticket without a result file is skipped
FullTicket_skip_missing(f, tid, exp, file) ==
    IF ~file.exists THEN f ELSE FullScored(f, tid, exp, file)

\* one iteration of `for tid, exp in expected.items()`
FullTicket(f, tid, exp, file) == FullScored(f, tid, exp, file)

\* 2 * p * r / (p + r), guarded
F1(p, r) == safe_div(FracMul(FromInt(2), FracMul(p, r)), FracAdd(p, r))

\* a plausible slip: the macro average is taken over all six labels
MacroLabels_all(f) == OurPatternSet

\* the labels that enter the macro average: support[label] > 0
MacroLabels(f) == { p \in OurPatternSet : f.support[p] > 0 }

RECURSIVE FracSum(_, _)
FracSum(g, keys) ==
    IF keys = {} THEN Zero
    ELSE LET k == CHOOSE x \in keys : TRUE IN FracAdd(g[k], FracSum(g, keys \ {k}))

\* the metrics after the loop
FullMetrics(f) ==
    LET micro_precision == safe_div(FromInt(f.micro_tp), FromInt(f.micro_tp + f.micro_fp))
        micro_recall == safe_div(FromInt(f.micro_tp), FromInt(f.micro_tp + f.micro_fn))
        per_label == [p \in OurPatternSet |->
            LET pr == safe_div(FromInt(f.tp[p]), FromInt(f.tp[p] + f.fp[p]))
                rc == safe_div(FromInt(f.tp[p]), FromInt(f.tp[p] + f.fn[p]))
            IN  [precision |-> pr, recall |-> rc, f1 |-> F1(pr, rc)]]
        macro == MacroLabels(f)
        macro_f1_sum == FracSum([p \in OurPatternSet |-> per_label[p].f1], macro)
        macro_n == Cardinality(macro)
    IN  [f EXCEPT
            !.micro_precision = micro_precision,
            !.micro_recall = micro_recall,
            !.micro_f1 = F1(micro_precision, micro_recall),
            !.per_label = per_label,
            !.macro_f1 = IF macro_n # 0 THEN FracDiv(macro_f1_sum, FromInt(macro_n))
                         ELSE Zero]

----------------------------------------------------------------------------
(* evaluate.main: inputs                                                    *)

\* the expected table holds tickets 1001, 1002, ... : at most NumEvalTickets
NumEvalTickets == 2

EvalTid(i) == 1000 + i

\* the "Expected Labels" cells of ground_truth_expected.csv (a hand-edited
\* file may hold a label outside the vocabulary)
ExpectedPool ==
    { <<>>, <<"RESPONSE_DELAYS">>, <<"AI_WALL_LOOPING", "PREMATURE_CLOSURE">>,
      <<"NOT_A_REAL_LABEL", "RESPONSE_DELAYS">> }

\* a prediction object flagging the labels of `flagged`, every other label
\* carrying the block `other`
Object(flagged, other) ==
    [exists |-> TRUE, json |-> "object",
     data |-> [p \in OurPatternSet |-> IF p \in flagged THEN BlockTrue ELSE other]]

\* no file ticket_<id>.json
NoFile ==
    [exists |-> FALSE, json |-> "object",
     data |-> [p \in OurPatternSet |-> BlockMissing]]

\* a file that is not JSON, and a file holding a JSON array
BadJson ==
    [exists |-> TRUE, json |-> "invalid",
     data |-> [p \in OurPatternSet |-> BlockMissing]]

JsonArray ==
    [exists |-> TRUE, json |-> "array",
     data |-> [p \in OurPatternSet |-> BlockMissing]]

FilePool ==
    { NoFile, BadJson, JsonArray,
      Object({}, BlockMissing),
      Object({"RESPONSE_DELAYS"}, BlockFalse),
      Object({"AI_WALL_LOOPING"}, BlockStrTrue),
      Object({"AI_QUALITY_FAILURES"}, BlockNoDetected),
      Object({"RESPONSE_DELAYS", "AI_WALL_LOOPING", "PREMATURE_CLOSURE"}, BlockNotDict) }

CsvTables ==
    { [i \in DOMAIN ls |-> [ticket_id |-> EvalTid(i), labels |-> ls[i]]] :
        ls \in UNION { [1..n -> ExpectedPool] : n \in 0..NumEvalTickets } }

ResultDirs == [{ EvalTid(i) : i \in 1..NumEvalTickets } -> FilePool]

----------------------------------------------------------------------------
(* evaluate.main, mode "both": steps                                        *)

\* expected = load_expected_labels(gt_csv)
EvalLoad ==
    /\ eval_pc = "load"
    /\ gt_expected' = load_expected_labels(gt_csv)
    /\ eval_pc' = "recall"
    /\ UNCHANGED <<gt_csv, results_dir, tick_i, recall, full>>
    /\ UNCHANGED <<mapVars, buildVars, rfVars, ctxVars, llmVars, detVars, pipeVars, selVars>>

\* one ticket of evaluate_recall_only; a file that does not load ends the run
EvalRecallTicket ==
    /\ eval_pc = "recall"
    /\ tick_i < Len(gt_expected)
    /\ LET item == gt_expected[tick_i + 1]
           file == results_dir[item.ticket_id]
       IN  IF item.labels # {} /\ file.exists /\ LoadRaises(file)
           THEN /\ eval_pc' = "recall_raised"
                /\ UNCHANGED <<tick_i, recall>>
           ELSE /\ recall' = RecallTicket(recall, item.ticket_id, item.labels, file)
                /\ tick_i' = tick_i + 1
                /\ eval_pc' = eval_pc
    /\ UNCHANGED <<gt_csv, results_dir, gt_expected, full>>
    /\ UNCHANGED <<mapVars, buildVars, rfVars, ctxVars, llmVars, detVars, pipeVars, selVars>>

\* the end of evaluate_recall_only
EvalRecallReturn ==
    /\ eval_pc = "recall"
    /\ tick_i = Len(gt_expected)
    /\ recall' = RecallMetrics(recall)
    /\ eval_pc' = "full"
    /\ tick_i' = 0
    /\ UNCHANGED <<gt_csv, results_dir, gt_expected, full>>
    /\ UNCHANGED <<mapVars, buildVars, rfVars, ctxVars, llmVars, detVars, pipeVars, selVars>>

\* one ticket of evaluate_full
EvalFullTicket ==
    /\ eval_pc = "full"
    /\ tick_i < Len(gt_expected)
    /\ LET item == gt_expected[tick_i + 1]
           file == results_dir[item.ticket_id]
       IN  IF file.exists /\ LoadRaises(file)
           THEN /\ eval_pc' = "full_raised"
                /\ UNCHANGED <<tick_i, full>>
           ELSE /\ full' = FullTicket(full, item.ticket_id, item.labels, file)
                /\ tick_i' = tick_i + 1
                /\ eval_pc' = eval_pc
    /\ UNCHANGED <<gt_csv, results_dir, gt_expected, recall>>
    /\ UNCHANGED <<mapVars, buildVars, rfVars, ctxVars, llmVars, detVars, pipeVars, selVars>>

\* the end of evaluate_full
EvalFullReturn ==
    /\ eval_pc = "full"
    /\ tick_i = Len(gt_expected)
    /\ full' = FullMetrics(full)
    /\ eval_pc' = "done"
    /\ UNCHANGED <<gt_csv, results_dir, gt_expected, tick_i, recall>>
    /\ UNCHANGED <<mapVars, buildVars, rfVars, ctxVars, llmVars, detVars, pipeVars, selVars>>

EvalNext ==
    EvalLoad \/ EvalRecallTicket \/ EvalRecallReturn \/ EvalFullTicket \/ EvalFullReturn

----------------------------------------------------------------------------
(* 7_eval_recall_first.py                                                   *)

\* the script's own copies of the two loaders
_load_expected(csv) == LoadRows(csv, 1, <<>>)

_load_predicted(file) ==
    { OUR_PATTERNS[i] : i \in { j \in DOMAIN OUR_PATTERNS :
                                  IsDetected(file.data[OUR_PATTERNS[j]]) } }

RecallFirstInit ==
    [missing_result_files |-> <<>>,
     expected_counts |-> ZeroCounter, hit_counts |-> ZeroCounter,
     missed_by_label |-> [p \in OurPatternSet |-> <<>>],
     tickets_full_covered |-> 0, tickets_with_any_expected |-> 0,
     pred |-> {},
     total_expected |-> 0, total_hit |-> 0,
     overall_recall |-> Zero, ticket_coverage |-> Zero]

\* [tid for tid in expected.keys() if not (results_dir / ...).exists()]
RECURSIVE MissingFiles(_, _, _)
MissingFiles(items, dir, i) ==
    IF i > Len(items) THEN <<>>
    ELSE (IF dir[items[i].ticket_id].exists THEN <<>> ELSE <<items[i].ticket_id>>)
         \o MissingFiles(items, dir, i + 1)

\* max(1, n)
Max1(n) == IF n >= 1 THEN n ELSE 1

\* expected = _load_expected(gt_csv)
RfLoad ==
    /\ rf_pc = "load"
    /\ gt_expected' = _load_expected(gt_csv)
    /\ rf_pc' = "check"
    /\ UNCHANGED <<rf_i, recall_first>>
    /\ UNCHANGED <<eval_pc, gt_csv, results_dir, tick_i, recall, full>>
    /\ UNCHANGED <<mapVars, buildVars, ctxVars, llmVars, detVars, pipeVars, selVars>>

\* the check of the result files: any missing file raises RuntimeError
RfCheckFiles ==
    /\ rf_pc = "check"
    /\ LET missing == MissingFiles(gt_expected, results_dir, 1)
       IN  /\ recall_first' = [recall_first EXCEPT !.missing_result_files = missing]
           /\ rf_pc' = IF missing # <<>> THEN "raised_missing" ELSE "score"
    /\ UNCHANGED rf_i
    /\ UNCHANGED <<evalVars, mapVars, buildVars, ctxVars, llmVars, detVars, pipeVars, selVars>>

\* one iteration of `for tid, exp in expected.items()`
RfTicket ==
    /\ rf_pc = "score"
    /\ rf_i < Len(gt_expected)
    /\ LET tid == gt_expected[rf_i + 1].ticket_id
           exp == gt_expected[rf_i + 1].labels
           file == results_dir[tid]
       IN  IF exp = {}
           THEN /\ rf_i' = rf_i + 1
                /\ UNCHANGED <<rf_pc, recall_first>>
           ELSE IF LoadRaises(file)
           THEN /\ rf_pc' = "raised_load"
                /\ UNCHANGED <<rf_i, recall_first>>
           ELSE LET pred == _load_predicted(file)
                IN  /\ recall_first' =
                          [recall_first EXCEPT
                              !.tickets_with_any_expected = @ + 1,
                              !.pred = pred,
                              !.expected_counts =
                                  [p \in OurPatternSet |-> @[p] + In01(p, exp)],
                              !.hit_counts =
                                  [p \in OurPatternSet |-> @[p] + In01(p, exp \cap pred)],
                              !.missed_by_label =
                                  [p \in OurPatternSet |->
                                      IF p \in exp \ pred THEN Append(@[p], tid)
                                      ELSE @[p]],
                              !.tickets_full_covered =
                                  @ + (IF exp \subseteq pred THEN 1 ELSE 0)]
                    /\ rf_i' = rf_i + 1
                    /\ UNCHANGED rf_pc
    /\ UNCHANGED <<evalVars, mapVars, buildVars, ctxVars, llmVars, detVars, pipeVars, selVars>>

\* the printed report
RfReport ==
    /\ rf_pc = "score"
    /\ rf_i = Len(gt_expected)
    /\ LET total_expected == SumOver(recall_first.expected_counts, OurPatternSet)
           total_hit == SumOver(recall_first.hit_counts, OurPatternSet)
       IN  recall_first' =
               [recall_first EXCEPT
                   !.total_expected = total_expected,
                   !.total_hit = total_hit,
                   !.ticket_coverage =
                       FracDiv(FromInt(recall_first.tickets_full_covered),
                               FromInt(Max1(recall_first.tickets_with_any_expected))),
                   !.overall_recall =
                       FracDiv(FromInt(total_hit), FromInt(Max1(total_expected)))]
    /\ rf_pc' = "done"
    /\ UNCHANGED rf_i
    /\ UNCHANGED <<evalVars, mapVars, buildVars, ctxVars, llmVars, detVars, pipeVars, selVars>>

RfNext == RfLoad \/ RfCheckFiles \/ RfTicket \/ RfReport

----------------------------------------------------------------------------
(* utils/data_loader.load_csv_context                                       *)

\* clean_csv_value: None for an empty or null-like value
IsNullLike(v) ==
    LET t == strip(v)
    IN  t = <<>> \/ lower(t) \in { <<"n","a","n">>, <<"n","o","n","e">>,
                                    <<"n","u","l","l">> }

\* a cell of a csv.DictReader row: None when the line is shorter than the header
CsvCell(text) == [none |-> FALSE, text |-> text]
CsvNone == [none |-> TRUE, text |-> <<>>]

\* int(str(tid_raw).strip()) raises ValueError
IntRaises(raw) == ~IsDigits(strip(raw))

CellBrand == <<"A","c","m","e">>

\* rows of the universe file: "Ticket ID" and one context column, "Brand"
CsvRowPool ==
    { [tid_raw |-> CsvCell(Cell100001), Brand |-> CellBrand],
      [tid_raw |-> CsvCell(<<" ">> \o Cell100002 \o <<" ">>), Brand |-> <<"n","a","n">>],
      [tid_raw |-> CsvCell(Cell100001), Brand |-> <<>>],
      [tid_raw |-> CsvCell(CellBlank), Brand |-> CellBrand],
      [tid_raw |-> CsvCell(CellTotal), Brand |-> <<>>],
      [tid_raw |-> CsvNone, Brand |-> <<>>] }

MaxCsvRows == 2

\* the file: absent, empty, without the "Ticket ID" column, or with rows
CsvFiles ==
    { [exists |-> FALSE, fieldnames |-> {}, rows |-> <<>>],
      [exists |-> TRUE, fieldnames |-> {}, rows |-> <<>>],
      [exists |-> TRUE, fieldnames |-> {"Brand"}, rows |-> <<>>] }
    \cup { [exists |-> TRUE, fieldnames |-> {"Ticket ID", "Brand"}, rows |-> rs] :
             rs \in UNION { [1..n -> CsvRowPool] : n \in 0..MaxCsvRows } }

\* the ctx dict of a row: the context columns whose value is not null-like
RowContext(row) ==
    [k \in { f \in {"Brand"} : ~IsNullLike(row[f]) } |-> strip(row[k])]

\* opening the file: the three early exits
CtxOpen ==
    /\ ctx_pc = "open"
    /\ ctx_pc' = IF ~ctx_csv.exists \/ ctx_csv.fieldnames = {} THEN "done"
                 ELSE IF "Ticket ID" \notin ctx_csv.fieldnames THEN "raised"
                 ELSE "rows"
    /\ UNCHANGED <<ctx_csv, ctx_i, out>>
    /\ UNCHANGED <<mapVars, buildVars, evalVars, rfVars, llmVars, detVars, pipeVars, selVars>>

\* one iteration of `for row in reader`
CtxRow ==
    /\ ctx_pc = "rows"
    /\ ctx_i < Len(ctx_csv.rows)
    /\ LET row == ctx_csv.rows[ctx_i + 1]
       IN  IF row.tid_raw.none \/ IntRaises(row.tid_raw.text)
           THEN out' = out
           ELSE LET tid == ToInt(strip(row.tid_raw.text))
                IN  out' = [t \in DOMAIN out \cup {tid} |->
                               IF t = tid THEN RowContext(row) ELSE out[t]]
    /\ ctx_i' = ctx_i + 1
    /\ UNCHANGED <<ctx_pc, ctx_csv>>
    /\ UNCHANGED <<mapVars, buildVars, evalVars, rfVars, llmVars, detVars, pipeVars, selVars>>

\* return out
CtxReturn ==
    /\ ctx_pc = "rows"
    /\ ctx_i = Len(ctx_csv.rows)
    /\ ctx_pc' = "done"
    /\ UNCHANGED <<ctx_csv, ctx_i, out>>
    /\ UNCHANGED <<mapVars, buildVars, evalVars, rfVars, llmVars, detVars, pipeVars, selVars>>

CtxNext == CtxOpen \/ CtxRow \/ CtxReturn

----------------------------------------------------------------------------
(* utils/llm_client.py: json.loads, as far as the response texts go         *)

\* parsed JSON values: an object (members in insertion order), a number or a
\* string (its text), or the null of JSON
JsonNumber(text) == [kind |-> "number", text |-> text, members |-> <<>>]
JsonString(text) == [kind |-> "string", text |-> text, members |-> <<>>]
JsonObject(members) == [kind |-> "object", text |-> <<>>, members |-> members]
JsonNull == [kind |-> "null", text |-> <<>>, members |-> <<>>]

\* what a scan returns when the text is no JSON: json.JSONDecodeError
JSONDecodeError == [ok |-> FALSE, value |-> JsonNull, next |-> 0]

JsonWhitespace == {" ", "\t", "\n", "\r"}

RECURSIVE SkipWs(_, _)
SkipWs(s, i) ==
    IF i <= Len(s) /\ s[i] \in JsonWhitespace THEN SkipWs(s, i + 1) ELSE i

\* the index after a number that starts at i: "0", or a digit run without a
\* leading zero
RECURSIVE ScanDigits(_, _)
ScanDigits(s, i) ==
    IF i <= Len(s) /\ s[i] \in Digits THEN ScanDigits(s, i + 1) ELSE i

ScanNumber(s, i) == IF s[i] = "0" THEN i + 1 ELSE ScanDigits(s, i)

\* the index of the quote that closes a string whose text starts at i, or 0
RECURSIVE ClosingQuote(_, _)
ClosingQuote(s, i) ==
    IF i > Len(s) THEN 0
    ELSE IF s[i] = "\"" THEN i
    ELSE ClosingQuote(s, i + 1)

\* dict assignment while an object is read: a repeated key keeps its place and
\* takes the later value
ObjPut(members, key, value) ==
    IF \E m \in DOMAIN members : members[m].key = key
    THEN [m \in DOMAIN members |->
             IF members[m].key = key THEN [key |-> key, value |-> value]
             ELSE members[m]]
    ELSE Append(members, [key |-> key, value |-> value])

RECURSIVE ParseValue(_, _)
RECURSIVE ParseMembers(_, _, _, _)

\* the value that starts at or after index i0 (leading whitespace skipped)
ParseValue(s, i0) ==
    LET i == SkipWs(s, i0)
    IN  IF i > Len(s) THEN JSONDecodeError
        ELSE IF s[i] = "{" THEN ParseMembers(s, SkipWs(s, i + 1), <<>>, TRUE)
        ELSE IF s[i] \in Digits
             THEN LET j == ScanNumber(s, i)
                  IN  [ok |-> TRUE, value |-> JsonNumber(SubSeq(s, i, j - 1)), next |-> j]
        ELSE IF s[i] = "\""
             THEN LET j == ClosingQuote(s, i + 1)
                  IN  IF j = 0 THEN JSONDecodeError
                      ELSE [ok |-> TRUE, value |-> JsonString(SubSeq(s, i + 1, j - 1)),
                            next |-> j + 1]
        ELSE IF i + 3 <= Len(s) /\ SubSeq(s, i, i + 3) = <<"n","u","l","l">>
             THEN [ok |-> TRUE, value |-> JsonNull, next |-> i + 4]
        ELSE JSONDecodeError

\* the members of an object from index i on; `first` says that "{" was just
\* read, the only place where "}" may follow directly
ParseMembers(s, i, members, first) ==
    IF i > Len(s) THEN JSONDecodeError
    ELSE IF s[i] = "}" /\ first
         THEN [ok |-> TRUE, value |-> JsonObject(members), next |-> i + 1]
    ELSE IF s[i] # "\"" THEN JSONDecodeError
    ELSE LET j == ClosingQuote(s, i + 1)
         IN  IF j = 0 THEN JSONDecodeError
             ELSE LET c == SkipWs(s, j + 1)
                  IN  IF c > Len(s) \/ s[c] # ":" THEN JSONDecodeError
                      ELSE LET v == ParseValue(s, c + 1)
                           IN  IF ~v.ok THEN JSONDecodeError
                               ELSE LET e == SkipWs(s, v.next)
                                        ms == ObjPut(members, SubSeq(s, i + 1, j - 1),
                                                     v.value)
                                    IN  IF e > Len(s) THEN JSONDecodeError
                                        ELSE IF s[e] = ","
                                             THEN ParseMembers(s, SkipWs(s, e + 1), ms, FALSE)
                                        ELSE IF s[e] = "}"
                                             THEN [ok |-> TRUE, value |-> JsonObject(ms),
                                                   next |-> e + 1]
                                        ELSE JSONDecodeError

\* a plausible slip: the first value of the text is taken and what follows it
\* is not looked at (raw_decode)
json_loads_prefix(content) == ParseValue(content, 1)

\* json.loads(content): one value, then nothing but whitespace ("Extra data"
\* otherwise)
json_loads(content) ==
    LET v == ParseValue(content, 1)
    IN  IF v.ok /\ SkipWs(content, v.next) > Len(content) THEN v ELSE JSONDecodeError

----------------------------------------------------------------------------
(* utils/llm_client.py: errors and delays                                   *)

\* the classes an exception is an instance of (the openai hierarchy, and two
\* builtins)
Bases(class) ==
    CASE class \in {"BadRequestError", "AuthenticationError", "PermissionDeniedError",
                    "NotFoundError", "ConflictError", "RateLimitError",
                    "InternalServerError"}
            -> {class, "APIStatusError", "APIError", "Exception"}
      [] class = "APIStatusError" -> {"APIStatusError", "APIError", "Exception"}
      [] class = "APITimeoutError"
            -> {"APITimeoutError", "APIConnectionError", "APIError", "Exception"}
      [] class = "APIConnectionError" -> {"APIConnectionError", "APIError", "Exception"}
      [] class = "IndexError" -> {"IndexError", "Exception"}
      [] class = "KeyboardInterrupt" -> {"KeyboardInterrupt"}

isinstance(error, class) == class \in Bases(error.class)

\* a plausible slip: every error is retried
_is_retryable_error_always(error) == TRUE

_is_retryable_error(error) ==
    IF isinstance(error, "AuthenticationError") THEN FALSE
    ELSE IF isinstance(error, "BadRequestError") THEN FALSE
    ELSE IF isinstance(error, "NotFoundError") THEN FALSE
    ELSE IF isinstance(error, "PermissionDeniedError") THEN FALSE
    ELSE IF isinstance(error, "RateLimitError") THEN TRUE
    ELSE IF isinstance(error, "APIConnectionError") THEN TRUE
    ELSE IF isinstance(error, "InternalServerError") THEN TRUE
    ELSE IF isinstance(error, "APIStatusError") THEN error.status_code >= 500
    ELSE FALSE

\* LLM_CONFIG["retry_delay_base"], in hundredths of a second
RetryDelayBase == 60

\* delays are in hundredths of a second
_get_retry_delay(error, base_delay, n) ==
    LET multiplier == n + 1
    IN  IF isinstance(error, "RateLimitError") THEN base_delay * 5 * multiplier
        ELSE (base_delay * 15 * multiplier) \div 10

\* range(_retries + 1): the number of iterations of the retry loop
Attempts(retries) == retries + 1

----------------------------------------------------------------------------
(* utils/llm_client.call_llm: what the API may answer                       *)

ApiError(class, status_code) ==
    [kind |-> "error", class |-> class, status_code |-> status_code,
     has_content |-> FALSE, content |-> <<>>]

\* a response whose message.content is the text
ApiContent(text) ==
    [kind |-> "response", class |-> "", status_code |-> 200,
     has_content |-> TRUE, content |-> text]

\* a response whose message.content is None
ApiNoContent ==
    [kind |-> "response", class |-> "", status_code |-> 200,
     has_content |-> FALSE, content |-> <<>>]

\* IndexError is resp.choices[0] on an empty list of choices; KeyboardInterrupt
\* is the user stopping the program while the request is out
ErrorPool ==
    { ApiError("AuthenticationError", 401), ApiError("BadRequestError", 400),
      ApiError("NotFoundError", 404), ApiError("PermissionDeniedError", 403),
      ApiError("ConflictError", 409), ApiError("RateLimitError", 429),
      ApiError("APIConnectionError", 0), ApiError("APITimeoutError", 0),
      ApiError("InternalServerError", 500), ApiError("APIStatusError", 503),
      ApiError("IndexError", 0), ApiError("KeyboardInterrupt", 0) }

\* response texts: objects (plain, nested, with blanks around), a number, null, a cut
\* off object, an object followed by more text, a trailing comma, blanks, nothing
ContentPool ==
    { <<"{", "\"", "a", "\"", ":", "1", "}">>,
      <<" ", "{", "\"", "a", "\"", ":", "{", "\"", "b", "\"", ":", "2", "}", "}", "\n">>,
      <<"{", "}">>,
      <<"7">>,
      <<"n", "u", "l", "l">>,
      <<"{", "\"", "a", "\"", ":", "1">>,
      <<"{", "\"", "a", "\"", ":", "1", "}", "}">>,
      <<"{", "\"", "a", "\"", ":", "1", ",", "}">>,
      <<" ", "\n">>,
      <<>> }

ApiOutcomes == ErrorPool \cup { ApiContent(c) : c \in ContentPool } \cup {ApiNoContent}

\* the largest max_retries of a call
MaxRetries == 2

----------------------------------------------------------------------------
(* utils/llm_client.call_llm: steps                                         *)

\* what call_llm returns: None, or the value json.loads gave
LlmNone == [is_none |-> TRUE, value |-> JsonNull]
LlmValue(v) == IF v.kind = "null" THEN LlmNone ELSE [is_none |-> FALSE, value |-> v]

CreateEvent(n, outcome) == [ev |-> "create", attempt |-> n, outcome |-> outcome, delay |-> 0]
SleepEvent(n, delay) == [ev |-> "sleep", attempt |-> n, outcome |-> ApiNoContent, delay |-> delay]

\* `if attempt < _retries: time.sleep(delay)`
SleepIfLeft(n, retries, delay) ==
    IF n < retries THEN <<SleepEvent(n, delay)>> ELSE <<>>

\* `not content or not content.strip()`
IsEmptyContent(outcome) == ~outcome.has_content \/ strip(outcome.content) = <<>>

\* one iteration of `for attempt in range(_retries + 1)`: the request, and what
\* the try block and its handlers do with the answer
LlmAttempt ==
    /\ llm_pc = "loop"
    /\ attempt < Attempts(_retries)
    /\ \E outcome \in ApiOutcomes :
         LET called == llm_trace \o <<CreateEvent(attempt, outcome)>>
         IN  IF outcome.kind = "response"
             THEN IF IsEmptyContent(outcome)
                  THEN /\ llm_pc' = "returned" /\ llm_result' = LlmNone
                       /\ llm_trace' = called
                       /\ UNCHANGED <<attempt, last_err>>
                  ELSE LET parsed == json_loads(outcome.content)
                       IN  IF parsed.ok
                           THEN /\ llm_pc' = "returned"
                                /\ llm_result' = LlmValue(parsed.value)
                                /\ llm_trace' = called
                                /\ UNCHANGED <<attempt, last_err>>
                           ELSE /\ last_err' = "JSONDecodeError"
                                /\ llm_trace' = called \o
                                      SleepIfLeft(attempt, _retries,
                                                  RetryDelayBase * (attempt + 1))
                                /\ attempt' = attempt + 1
                                /\ UNCHANGED <<llm_pc, llm_result>>
             ELSE IF ~isinstance(outcome, "Exception")
                  THEN /\ llm_pc' = "raised"
                       /\ llm_trace' = called
                       /\ UNCHANGED <<attempt, last_err, llm_result>>
                  ELSE /\ last_err' = outcome.class
                       /\ IF ~_is_retryable_error(outcome)
                          THEN /\ llm_pc' = "returned" /\ llm_result' = LlmNone
                               /\ llm_trace' = called
                               /\ UNCHANGED attempt
                          ELSE /\ llm_trace' = called \o
                                     SleepIfLeft(attempt, _retries,
                                                 _get_retry_delay(outcome, RetryDelayBase,
                                                                  attempt))
                               /\ attempt' = attempt + 1
                               /\ UNCHANGED <<llm_pc, llm_result>>
    /\ UNCHANGED _retries
    /\ UNCHANGED <<mapVars, buildVars, evalVars, rfVars, ctxVars, detVars, pipeVars, selVars>>

\* the loop ran out: `return None` at the end of the function
LlmExhausted ==
    /\ llm_pc = "loop"
    /\ attempt >= Attempts(_retries)
    /\ llm_pc' = "returned"
    /\ llm_result' = LlmNone
    /\ UNCHANGED <<_retries, attempt, last_err, llm_trace>>
    /\ UNCHANGED <<mapVars, buildVars, evalVars, rfVars, ctxVars, detVars, pipeVars, selVars>>

LlmNext == LlmAttempt \/ LlmExhausted

----------------------------------------------------------------------------
(* llm_detect.main: what analyze_ticket may return                          *)

\* a value analyze_ticket returns, by its Python type: the keys of a dict, the
\* items of a list, the vocabulary labels a str contains; `id` tells one
\* answer from another
Answer(kind, names, id) == [kind |-> kind, names |-> names, id |-> id]

\* None: the raw file is missing, or call_llm gave no result
AnswerNone == Answer("None", {}, 0)

\* the answers of the LLM: all six blocks, one block, an object without any
\* block, an empty object, a list that names a label, a number
AnswerPool ==
    { AnswerNone,
      Answer("dict", OurPatternSet, 1),
      Answer("dict", {"AI_WALL_LOOPING"}, 2),
      Answer("dict", {"summary"}, 3),
      Answer("dict", {}, 4),
      Answer("list", {"AI_WALL_LOOPING"}, 5),
      Answer("int", {}, 6) }

\* `p in result` raises TypeError on a number or a boolean
InRaises(res) == res.kind \in {"int", "bool"}

\* any(p in result for p in OUR_PATTERNS): a key of a dict, an item of a list,
\* a substring of a str
HasPattern(res) == \E p \in OurPatternSet : p \in res.names

\* result["_model"] = ... raises TypeError unless result is a dict
SetItemRaises(res) == res.kind # "dict"

\* the text written to ticket_<id>.json: the result with the two tags
Written(res, tid) ==
    [kind |-> "dict", names |-> res.names \cup {"_model", "_ticket_id"},
     id |-> res.id, ticket_id |-> tid]

\* a result file left by an earlier run
OldFile(tid) ==
    [kind |-> "dict", names |-> OurPatternSet \cup {"_model", "_ticket_id"},
     id |-> 0, ticket_id |-> tid]

\* the ticket ids of a detection run
DetTids == {60001, 60002}

\* the longest ticket list of a run
MaxDetTickets == 2

\* ticket_ids: --tickets, or one of the ticket sets (an id may be listed twice)
TicketLists == UNION { [1..n -> DetTids] : n \in 0..MaxDetTickets }

\* the output directory before the run: some tickets have a result file
OutputDirs == { [t \in S |-> OldFile(t)] : S \in SUBSET DetTids }

\* `if args.force or not out.exists()`
NeedsProcessing(tid, dir, forced) == forced \/ tid \notin DOMAIN dir

\* the loop that fills to_process
RECURSIVE Filter(_, _, _, _)
Filter(ids, i, dir, forced) ==
    IF i > Len(ids) THEN <<>>
    ELSE (IF NeedsProcessing(ids[i], dir, forced) THEN <<ids[i]>> ELSE <<>>)
         \o Filter(ids, i + 1, dir, forced)

----------------------------------------------------------------------------
(* llm_detect.main: steps                                                   *)

\* `for tid in ticket_ids: ... to_process.append(tid)`
DetSelect ==
    /\ det_pc = "select"
    /\ to_process' = Filter(ticket_ids, 1, output_dir, force)
    /\ det_pc' = "loop"
    /\ UNCHANGED <<force, ticket_ids, output_dir, det_i, result, ok, empty, malformed>>
    /\ UNCHANGED <<mapVars, buildVars, evalVars, rfVars, ctxVars, llmVars, pipeVars, selVars>>

\* one iteration of `for i, tid in enumerate(to_process)`
DetTicket ==
    /\ det_pc = "loop"
    /\ det_i < Len(to_process)
    /\ \E res \in AnswerPool :
         LET tid == to_process[det_i + 1]
         IN  /\ result' = res
             /\ IF res.kind = "None"
                THEN /\ empty' = empty + 1
                     /\ det_i' = det_i + 1
                     /\ UNCHANGED <<det_pc, output_dir, ok, malformed>>
                ELSE IF InRaises(res)
                THEN /\ det_pc' = "raised"
                     /\ UNCHANGED <<output_dir, det_i, ok, empty, malformed>>
                ELSE IF ~HasPattern(res)
                THEN /\ malformed' = malformed + 1
                     /\ det_i' = det_i + 1
                     /\ UNCHANGED <<det_pc, output_dir, ok, empty>>
                ELSE IF SetItemRaises(res)
                THEN /\ det_pc' = "raised"
                     /\ UNCHANGED <<output_dir, det_i, ok, empty, malformed>>
                ELSE /\ output_dir' =
                           [t \in DOMAIN output_dir \cup {tid} |->
                               IF t = tid THEN Written(res, tid) ELSE output_dir[t]]
                     /\ ok' = ok + 1
                     /\ det_i' = det_i + 1
                     /\ UNCHANGED <<det_pc, empty, malformed>>
    /\ UNCHANGED <<force, ticket_ids, to_process>>
    /\ UNCHANGED <<mapVars, buildVars, evalVars, rfVars, ctxVars, llmVars, pipeVars, selVars>>

\* the summary after the loop
DetReport ==
    /\ det_pc = "loop"
    /\ det_i = Len(to_process)
    /\ det_pc' = "done"
    /\ UNCHANGED <<force, ticket_ids, output_dir, to_process, det_i, result, ok, empty,
                   malformed>>
    /\ UNCHANGED <<mapVars, buildVars, evalVars, rfVars, ctxVars, llmVars, pipeVars, selVars>>

DetNext == DetSelect \/ DetTicket \/ DetReport

----------------------------------------------------------------------------
(* run_pipeline.py                                                          *)

STEP_ORDER == <<"sample", "fetch", "detect", "eval", "summarize">>

StepSet == { STEP_ORDER[i] : i \in DOMAIN STEP_ORDER }

\* an option that was not given (argparse leaves None)
NoStep == ""

\* STEP_ORDER.index(step)
StepIndex(step) == CHOOSE i \in DOMAIN STEP_ORDER : STEP_ORDER[i] = step

\* [s for s in steps if s not in skip]
RECURSIVE Without(_, _)
Without(steps, skip) ==
    IF steps = <<>> THEN <<>>
    ELSE (IF Head(steps) \in skip THEN <<>> ELSE <<Head(steps)>>)
         \o Without(Tail(steps), skip)

\* steps_to_run: --step, else --from, else every step; then the skipped ones
\* are removed
StepsToRun(a) ==
    Without(IF a.step # NoStep THEN <<a.step>>
            ELSE IF a.from_step # NoStep
                 THEN SubSeq(STEP_ORDER, StepIndex(a.from_step), Len(STEP_ORDER))
            ELSE STEP_ORDER,
            a.skip)

\* what the prerequisite checks look for on disk: the sample file, raw ticket
\* files, result files, the ground-truth file
Artifacts == {"poc_sample_csv", "raw_tickets", "results", "ground_truth_csv"}

\* check_prerequisites(step_id), first component
check_prerequisites(step_id, files) ==
    CASE step_id = "sample" -> TRUE
      [] step_id = "fetch" -> "poc_sample_csv" \in files
      [] step_id = "detect" -> "raw_tickets" \in files
      [] step_id = "eval" -> "results" \in files /\ "ground_truth_csv" \in files
      [] step_id = "summarize" -> "results" \in files

\* what a step's script may leave on disk
Products(step_id) ==
    CASE step_id = "sample" -> {"poc_sample_csv"}
      [] step_id = "fetch" -> {"raw_tickets"}
      [] step_id = "detect" -> {"results"}
      [] OTHER -> {}

\* exit codes of a script: success, failure, killed by a signal
ReturnCodes == {0, 1, -9}

CheckEvent(step_id, passed) == [ev |-> "check", step |-> step_id, ok |-> passed, code |-> 0]
MissingEvent(step_id) == [ev |-> "missing", step |-> step_id, ok |-> FALSE, code |-> 0]
StartEvent(step_id, code) == [ev |-> "start", step |-> step_id, ok |-> code = 0, code |-> code]

\* a plausible slip: a failed step does not stop the loop
AfterStep_continue(success) == "loop"

\* `break` after a failed check or a failed step
AfterStep(success) == IF success THEN "loop" ELSE "summary"

\* the steps are chosen; without any step main returns at once
PipeSelect ==
    /\ pipe_pc = "select"
    /\ steps_to_run' = StepsToRun(args)
    /\ IF StepsToRun(args) = <<>>
       THEN pipe_pc' = "done" /\ exit_status' = 0
       ELSE pipe_pc' = "loop" /\ UNCHANGED exit_status
    /\ UNCHANGED <<args, fs, pipe_i, failed, pipe_trace>>
    /\ UNCHANGED <<mapVars, buildVars, evalVars, rfVars, ctxVars, llmVars, detVars, selVars>>

\* one iteration of `for step_id in steps_to_run`: the prerequisite check, then
\* run_step (the script may be missing; if it runs it may write its files)
PipeStep ==
    /\ pipe_pc = "loop"
    /\ pipe_i < Len(steps_to_run)
    /\ LET step_id == steps_to_run[pipe_i + 1]
       IN  IF ~check_prerequisites(step_id, fs)
           THEN /\ pipe_trace' = Append(pipe_trace, CheckEvent(step_id, FALSE))
                /\ failed' = Append(failed, step_id)
                /\ pipe_pc' = AfterStep(FALSE)
                /\ fs' = fs
           ELSE \E exists \in BOOLEAN, code \in ReturnCodes, made \in SUBSET Products(step_id) :
                  IF ~exists
                  THEN /\ code = 0 /\ made = {}
                       /\ pipe_trace' = pipe_trace \o
                             <<CheckEvent(step_id, TRUE), MissingEvent(step_id)>>
                       /\ failed' = Append(failed, step_id)
                       /\ pipe_pc' = AfterStep(FALSE)
                       /\ fs' = fs
                  ELSE /\ pipe_trace' = pipe_trace \o
                             <<CheckEvent(step_id, TRUE), StartEvent(step_id, code)>>
                       /\ fs' = fs \cup made
                       /\ failed' = IF code = 0 THEN failed ELSE Append(failed, step_id)
                       /\ pipe_pc' = AfterStep(code = 0)
    /\ pipe_i' = pipe_i + 1
    /\ UNCHANGED <<args, steps_to_run, exit_status>>
    /\ UNCHANGED <<mapVars, buildVars, evalVars, rfVars, ctxVars, llmVars, detVars, selVars>>

\* the summary: sys.exit(1) when a step failed, else the normal end
PipeSummary ==
    /\ \/ pipe_pc = "summary"
       \/ pipe_pc = "loop" /\ pipe_i = Len(steps_to_run)
    /\ pipe_pc' = "done"
    /\ exit_status' = IF failed # <<>> THEN 1 ELSE 0
    /\ UNCHANGED <<args, fs, steps_to_run, pipe_i, failed, pipe_trace>>
    /\ UNCHANGED <<mapVars, buildVars, evalVars, rfVars, ctxVars, llmVars, detVars, selVars>>

PipeNext == PipeSelect \/ PipeStep \/ PipeSummary

----------------------------------------------------------------------------
(* utils/formatters.py                                                      *)

\* a text of n equal characters
RECURSIVE Repeat(_, _)
Repeat(c, n) == IF n = 0 THEN <<>> ELSE <<c>> \o Repeat(c, n - 1)

\* _format_single_interaction for a text within max_per: f"[{ts}]\n{text}\n\n---\n"
FormatChunk(ts, text) ==
    <<"[">> \o ts \o <<"]", "\n">> \o text \o <<"\n", "\n", "-", "-", "-", "\n">>

\* "\n...[middle interactions omitted]...\n"
MiddleOmitted ==
    <<"\n", ".", ".", ".", "[", "m", "i", "d", "d", "l", "e", " ",
      "i", "n", "t", "e", "r", "a", "c", "t", "i", "o", "n", "s", " ",
      "o", "m", "i", "t", "t", "e", "d", "]", ".", ".", ".", "\n">>

\* "\n...[some interactions omitted]...\n"
SomeOmitted ==
    <<"\n", ".", ".", ".", "[", "s", "o", "m", "e", " ",
      "i", "n", "t", "e", "r", "a", "c", "t", "i", "o", "n", "s", " ",
      "o", "m", "i", "t", "t", "e", "d", "]", ".", ".", ".", "\n">>

\* sum(len(c) for c in chunks)
RECURSIVE TotalLen(_)
TotalLen(chunks) ==
    IF chunks = <<>> THEN 0 ELSE Len(Head(chunks)) + TotalLen(Tail(chunks))

\* int(n * pct) for a percentage (exact for the sizes in use)
IntPct(n, pct) == (n * pct) \div 100

\* the loop over first_section: chunks are taken while they fit, then `break`
RECURSIVE TakeFirst(_, _, _, _)
TakeFirst(chunks, i, used, budget) ==
    IF i > Len(chunks) \/ used + Len(chunks[i]) > budget THEN <<>>
    ELSE <<chunks[i]>> \o TakeFirst(chunks, i + 1, used + Len(chunks[i]), budget)

\* the loop over reversed(last_section), each kept chunk inserted in front
RECURSIVE TakeLast(_, _, _, _)
TakeLast(chunks, i, used, budget) ==
    IF i < 1 \/ used + Len(chunks[i]) > budget THEN <<>>
    ELSE TakeLast(chunks, i - 1, used + Len(chunks[i]), budget) \o <<chunks[i]>>

\* the sampling loop `for i in range(0, len(middle_section), step)`: a chunk
\* that does not fit is passed over (i counts from 1 here)
RECURSIVE SampleMiddle(_, _, _, _, _)
SampleMiddle(chunks, i, step, used, budget) ==
    IF i > Len(chunks) THEN <<>>
    ELSE IF used + Len(chunks[i]) <= budget
         THEN <<chunks[i]>> \o
              SampleMiddle(chunks, i + step, step, used + Len(chunks[i]), budget)
    ELSE SampleMiddle(chunks, i + step, step, used, budget)

Selection(chunks, was_truncated) == [chunks |-> chunks, was_truncated |-> was_truncated]

\* _smart_select_interactions with first_pct = 0.20 and last_pct = 0.60
_smart_select_interactions(chunks, budget) ==
    IF chunks = <<>> THEN Selection(<<>>, FALSE)
    ELSE IF TotalLen(chunks) <= budget THEN Selection(chunks, FALSE)
    ELSE
    LET n == Len(chunks)
        overlap == Max1(IntPct(n, 20)) + Max1(IntPct(n, 60)) >= n
        n_first == IF overlap THEN n \div 3 ELSE Max1(IntPct(n, 20))
        n_last == IF overlap THEN n - (n \div 3) ELSE Max1(IntPct(n, 60))
        first_section == SubSeq(chunks, 1, n_first)
        last_section == IF n_last > 0 THEN SubSeq(chunks, n - n_last + 1, n) ELSE <<>>
        first_size == TotalLen(first_section)
        last_size == TotalLen(last_section)
    IN  IF first_size + last_size > budget
        THEN LET last_budget == IntPct(budget, 70)
                 first_budget == budget - last_budget
             IN  Selection(TakeFirst(first_section, 1, 0, first_budget)
                           \o <<MiddleOmitted>>
                           \o TakeLast(last_section, Len(last_section), 0, last_budget),
                           TRUE)
        ELSE LET middle_section ==
                     IF n - n_last > n_first THEN SubSeq(chunks, n_first + 1, n - n_last)
                     ELSE <<>>
                 remaining_budget == budget - first_size - last_size
                 middle_selected ==
                     IF middle_section # <<>> /\ remaining_budget > 100
                     THEN SampleMiddle(middle_section, 1,
                                       Max1(Len(middle_section) \div 5), 0,
                                       remaining_budget)
                     ELSE <<>>
             IN  IF middle_selected # <<>>
                 THEN Selection(first_section \o <<SomeOmitted>> \o middle_selected
                                \o <<SomeOmitted>> \o last_section, TRUE)
                 ELSE Selection(first_section \o <<MiddleOmitted>> \o last_section, TRUE)

\* formatted interactions: a short one and a long one
ChunkPool ==
    { FormatChunk(<<"t", "1">>, <<"h", "i">>),
      FormatChunk(<<"t", "2">>, Repeat("x", 96)) }

\* the largest number of interactions of a ticket
MaxChunks == 6

FormattedLists == UNION { [1..n -> ChunkPool] : n \in 0..MaxChunks }

\* budgets: max_chars less the header, for limits small enough to cut these
\* tickets (int(max_chars * 0.70) is exact for each of them)
BudgetPool == {20, 40, 130, 160}

\* the call in format_interactions
SelCall ==
    /\ sel_pc = "call"
    /\ selected' = _smart_select_interactions(formatted, max_chars)
    /\ sel_pc' = "returned"
    /\ UNCHANGED <<formatted, max_chars>>
    /\ UNCHANGED <<mapVars, buildVars, evalVars, rfVars, ctxVars, llmVars, detVars, pipeVars>>

SelNext == SelCall

----------------------------------------------------------------------------
(* map_pattern_to_label on its own                                          *)

MapCall ==
    /\ map_pc = "call"
    /\ label' = map_pattern_to_label(pattern_text)
    /\ map_pc' = "return"
    /\ UNCHANGED pattern_text
    /\ UNCHANGED <<buildVars, evalVars, rfVars, ctxVars, llmVars, detVars, pipeVars, selVars>>

MapNext == MapCall

----------------------------------------------------------------------------
(* Specifications                                                           *)

MapIdle == map_pc = "idle" /\ pattern_text = <<>> /\ label = None

BuildIdle ==
    /\ build_pc = "idle" /\ build_run = 0
    /\ universe_csv = <<>>
    /\ universe = {} /\ excluded = {} /\ overrides = <<>> /\ patterns_df = <<>>
    /\ row_i = 0 /\ rule_i = 0
    /\ expected = EmptyMap /\ unmapped_patterns = EmptyMap
    /\ override_warnings = <<>>
    /\ orphan_excluded = <<>> /\ orphan_overrides = <<>>

EvalIdle ==
    /\ eval_pc = "idle"
    /\ gt_csv = <<>> /\ results_dir = EmptyMap /\ gt_expected = <<>>
    /\ tick_i = 0 /\ recall = RecallInit /\ full = FullInit

RfIdle == rf_pc = "idle" /\ rf_i = 0 /\ recall_first = RecallFirstInit

CtxIdle ==
    /\ ctx_pc = "idle" /\ ctx_i = 0 /\ out = EmptyMap
    /\ ctx_csv = [exists |-> FALSE, fieldnames |-> {}, rows |-> <<>>]

LlmIdle ==
    /\ llm_pc = "idle" /\ _retries = 0 /\ attempt = 0 /\ last_err = ""
    /\ llm_trace = <<>> /\ llm_result = LlmNone

DetIdle ==
    /\ det_pc = "idle" /\ force = FALSE /\ ticket_ids = <<>> /\ output_dir = EmptyMap
    /\ to_process = <<>> /\ det_i = 0 /\ result = AnswerNone
    /\ ok = 0 /\ empty = 0 /\ malformed = 0

\* exit_status -1: the process has not ended
PipeIdle ==
    /\ pipe_pc = "idle" /\ args = [step |-> NoStep, from_step |-> NoStep, skip |-> {}]
    /\ fs = {} /\ steps_to_run = <<>> /\ pipe_i = 0 /\ failed = <<>>
    /\ pipe_trace = <<>> /\ exit_status = -1

SelIdle ==
    /\ sel_pc = "idle" /\ formatted = <<>> /\ max_chars = 0
    /\ selected = Selection(<<>>, FALSE)

\* map_pattern_to_label is called on a text
InitMap ==
    /\ map_pc = "call" /\ pattern_text \in Texts /\ label = None
    /\ BuildIdle /\ EvalIdle /\ RfIdle /\ CtxIdle /\ LlmIdle /\ DetIdle /\ PipeIdle /\ SelIdle

\* 6_build_ground_truth.py is run on a matrix, a universe and an override file
InitBuild ==
    /\ build_pc = "universe" /\ build_run = 1
    /\ universe_csv \in UniverseCsvs
    /\ universe = {}
    /\ excluded \in SUBSET BuildTids
    /\ overrides \in OverrideTables
    /\ patterns_df \in PatternTables
    /\ row_i = 0 /\ rule_i = 0
    /\ expected = EmptyMap /\ unmapped_patterns = EmptyMap
    /\ override_warnings = <<>>
    /\ orphan_excluded = <<>> /\ orphan_overrides = <<>>
    /\ MapIdle /\ EvalIdle /\ RfIdle /\ CtxIdle /\ LlmIdle /\ DetIdle /\ PipeIdle /\ SelIdle

\* evaluate.py is run on a ground-truth file and a results directory
InitEval ==
    /\ eval_pc = "load"
    /\ gt_csv \in CsvTables
    /\ results_dir \in ResultDirs
    /\ gt_expected = <<>>
    /\ tick_i = 0 /\ recall = RecallInit /\ full = FullInit
    /\ MapIdle /\ BuildIdle /\ RfIdle /\ CtxIdle /\ LlmIdle /\ DetIdle /\ PipeIdle /\ SelIdle

\* 7_eval_recall_first.py is run on a ground-truth file and a results directory
InitRf ==
    /\ rf_pc = "load" /\ rf_i = 0 /\ recall_first = RecallFirstInit
    /\ gt_csv \in CsvTables
    /\ results_dir \in ResultDirs
    /\ eval_pc = "idle" /\ gt_expected = <<>>
    /\ tick_i = 0 /\ recall = RecallInit /\ full = FullInit
    /\ MapIdle /\ BuildIdle /\ CtxIdle /\ LlmIdle /\ DetIdle /\ PipeIdle /\ SelIdle

\* load_csv_context is called on a universe file
InitCtx ==
    /\ ctx_pc = "open" /\ ctx_csv \in CsvFiles /\ ctx_i = 0 /\ out = EmptyMap
    /\ MapIdle /\ BuildIdle /\ EvalIdle /\ RfIdle /\ LlmIdle /\ DetIdle /\ PipeIdle /\ SelIdle

\* call_llm is called with a number of retries
InitLlm ==
    /\ llm_pc = "loop" /\ _retries \in 0..MaxRetries /\ attempt = 0 /\ last_err = ""
    /\ llm_trace = <<>> /\ llm_result = LlmNone
    /\ MapIdle /\ BuildIdle /\ EvalIdle /\ RfIdle /\ CtxIdle /\ DetIdle /\ PipeIdle /\ SelIdle

\* llm_detect.py is run on a ticket list and an output directory
InitDet ==
    /\ det_pc = "select" /\ force \in BOOLEAN /\ ticket_ids \in TicketLists
    /\ output_dir \in OutputDirs
    /\ to_process = <<>> /\ det_i = 0 /\ result = AnswerNone
    /\ ok = 0 /\ empty = 0 /\ malformed = 0
    /\ MapIdle /\ BuildIdle /\ EvalIdle /\ RfIdle /\ CtxIdle /\ LlmIdle /\ PipeIdle /\ SelIdle

\* run_pipeline.py is run with --step, --from and --skip, on some state of the
\* data directory
InitPipe ==
    /\ pipe_pc = "select"
    /\ args \in [step : StepSet \cup {NoStep}, from_step : StepSet \cup {NoStep},
                 skip : SUBSET StepSet]
    /\ fs \in SUBSET Artifacts
    /\ steps_to_run = <<>> /\ pipe_i = 0 /\ failed = <<>>
    /\ pipe_trace = <<>> /\ exit_status = -1
    /\ MapIdle /\ BuildIdle /\ EvalIdle /\ RfIdle /\ CtxIdle /\ LlmIdle /\ DetIdle /\ SelIdle

\* _smart_select_interactions is called on the formatted interactions of a
\* ticket
InitSel ==
    /\ sel_pc = "call" /\ formatted \in FormattedLists /\ max_chars \in BudgetPool
    /\ selected = Selection(<<>>, FALSE)
    /\ MapIdle /\ BuildIdle /\ EvalIdle /\ RfIdle /\ CtxIdle /\ LlmIdle /\ DetIdle /\ PipeIdle

Init ==
    InitBuild \/ InitEval \/ InitMap \/ InitRf \/ InitCtx \/ InitLlm \/ InitDet
    \/ InitPipe \/ InitSel

Next ==
    BuildNext \/ BuildRerun \/ EvalNext \/ MapNext \/ RfNext \/ CtxNext \/ LlmNext
    \/ DetNext \/ PipeNext \/ SelNext

\* any one of the scripts
Spec == Init /\ [][Next]_vars

SpecMap == InitMap /\ [][MapNext]_vars

SpecBuild == InitBuild /\ [][BuildNext]_vars

SpecEval == InitEval /\ [][EvalNext]_vars

\* the builder or the evaluator: the two places labels are produced
SpecLabels == (InitBuild \/ InitEval) /\ [][BuildNext \/ EvalNext]_vars

\* the two evaluator scripts
SpecEvaluators == (InitEval \/ InitRf) /\ [][EvalNext \/ RfNext]_vars

SpecLlm == InitLlm /\ [][LlmNext]_vars

SpecDetect == InitDet /\ [][DetNext]_vars

SpecPipeline == InitPipe /\ [][PipeNext]_vars

SpecSelect == InitSel /\ [][SelNext]_vars

\* the builder run twice in a row on the same inputs
SpecRebuild == InitBuild /\ [][BuildNext \/ BuildRerun]_vars

\* the two loads of the ticket universe
SpecUniverse == (InitBuild \/ InitCtx) /\ [][BuildNext \/ CtxNext]_vars

----------------------------------------------------------------------------
(* Properties of the ground-truth builder                                   *)

Range(q) == { q[i] : i \in DOMAIN q }

\* the override rules the loop does not skip
AppliedRules ==
    { r \in Range(overrides) : r.ticket_id \in universe /\ r.ticket_id \notin excluded }

\* the ticket ids a mapped row of the matrix seeds
SeededIds ==
    UNION { RowTicketIds(patterns_df[i]) :
              i \in { j \in DOMAIN patterns_df :
                        map_pattern_to_label(clean_or_empty(patterns_df[j].pattern)) # None } }

BuildFiltered == build_pc \in {"overrides", "done"}

\* C1 (closed vocabulary): every label of every expected set the builder holds or
\* writes, every label load_expected_labels returns and every label
\* load_predicted_labels returns is one of the six pattern labels, whatever the
\* matrix, the exclusions and the override lists (invalid labels included) are.
C1_ClosedVocabulary ==
    /\ \A t \in DOMAIN expected : expected[t] \subseteq OurPatternSet
    /\ build_pc = "done" =>
          \A i \in DOMAIN gt_csv : Range(gt_csv[i].labels) \subseteq OurPatternSet
    /\ \A i \in DOMAIN gt_expected : gt_expected[i].labels \subseteq OurPatternSet
    /\ recall.pred \subseteq OurPatternSet
    /\ full.pred \subseteq OurPatternSet

\* an applied keep rule with an invalid label has left its valid label
C1_Witness ==
    /\ build_pc = "done"
    /\ \E r \in AppliedRules :
          /\ "keep" \in r.keys /\ InvalidLabel \in r.keep
          /\ expected[r.ticket_id] = {"RESPONSE_DELAYS"}

\* C2 (universe hard filter): once the seeds are filtered, every key of the
\* expected map is a ticket of the universe, and so is every row written;
\* an override for a ticket outside the universe adds no key and no warning.
C2_UniverseFilter ==
    /\ BuildFiltered => DOMAIN expected \subseteq universe
    /\ \A i \in DOMAIN override_warnings : override_warnings[i].tid \in universe
    /\ build_pc = "done" =>
          \A i \in DOMAIN gt_csv : gt_csv[i].ticket_id \in universe

\* a seeded id and an override-only id, both outside the universe, at the end
C2_Witness ==
    /\ build_pc = "done"
    /\ \E t \in SeededIds : t \notin universe
    /\ \E r \in Range(overrides) :
          /\ r.ticket_id \notin universe /\ r.ticket_id \notin SeededIds
          /\ r.ticket_id \notin excluded
          /\ "add" \in r.keys /\ r.add \cap OurPatternSet # {}

\* C5 (override precedence): at the end of the build, a ticket whose applied rule
\* holds `keep` together with `remove` and/or `add` has exactly the valid labels
\* of `keep`, whatever the matrix seeded and whatever `remove`/`add` list, and
\* the keep-combination warning is recorded for it.
C5_KeepPrecedence ==
    build_pc = "done" =>
        \A r \in AppliedRules :
            ("keep" \in r.keys /\ ("remove" \in r.keys \/ "add" \in r.keys)) =>
                /\ r.ticket_id \in DOMAIN expected
                /\ expected[r.ticket_id] = { x \in r.keep : x \in OurPatternSet }
                /\ \E i \in DOMAIN override_warnings :
                      /\ override_warnings[i].tid = r.ticket_id
                      /\ override_warnings[i].kind = "keep_combined"

\* keep and add together on a seeded ticket: the seeded label and the label of
\* `add` are gone, the valid label of `keep` stays
C5_Witness ==
    /\ build_pc = "done"
    /\ \E r \in AppliedRules :
          /\ r.keys = {"keep", "add"}
          /\ r.keep = {"RESPONSE_DELAYS", InvalidLabel}
          /\ r.add = {"AI_WALL_LOOPING"}
          /\ r.ticket_id \in SeededIds
          /\ expected[r.ticket_id] = {"RESPONSE_DELAYS"}

\* C6 as stated (invalid label in add/keep): for every override rule, a label
\* outside the vocabulary in its `add` or `keep` list is in no expected set, some
\* warning is recorded for the rule's ticket (an override warning, or at least
\* the ticket's mention among the overrides outside the universe).
C6_AsStated ==
    build_pc = "done" =>
        \A r \in Range(overrides) :
            \A key \in {"keep", "add"} :
                LET list == IF key = "keep" THEN r.keep ELSE r.add
                IN  (key \in r.keys /\ list \ OurPatternSet # {}) =>
                        /\ \A t \in DOMAIN expected : expected[t] \cap list \subseteq OurPatternSet
                        /\ \/ \E i \in DOMAIN override_warnings :
                                 override_warnings[i].tid = r.ticket_id
                           \/ r.ticket_id \in Range(orphan_overrides)

\* C6 as amended: for an applied rule, an invalid label in `keep`, or in `add`
\* when the rule has no `keep`, is in no expected set, an invalid-labels warning
\* for the ticket names it, and the valid labels of that list are in the
\* ticket's expected set; before its end the build always has a next step.
C6_InvalidAddKeep ==
    /\ build_pc \in {"rows", "overrides"} =>
          row_i <= Len(patterns_df) /\ rule_i <= Len(overrides)
    /\ build_pc = "done" =>
        \A r \in AppliedRules :
            /\ "keep" \in r.keys =>
                  /\ \A x \in r.keep \ OurPatternSet :
                        /\ \A t \in DOMAIN expected : x \notin expected[t]
                        /\ \E i \in DOMAIN override_warnings :
                              /\ override_warnings[i].tid = r.ticket_id
                              /\ override_warnings[i].kind = "invalid_keep"
                              /\ x \in override_warnings[i].labels
                  /\ r.keep \cap OurPatternSet \subseteq expected[r.ticket_id]
            /\ ("add" \in r.keys /\ "keep" \notin r.keys) =>
                  /\ \A x \in r.add \ OurPatternSet :
                        /\ \A t \in DOMAIN expected : x \notin expected[t]
                        /\ \E i \in DOMAIN override_warnings :
                              /\ override_warnings[i].tid = r.ticket_id
                              /\ override_warnings[i].kind = "invalid_add"
                              /\ x \in override_warnings[i].labels
                  /\ r.add \cap OurPatternSet \subseteq expected[r.ticket_id]

\* an applied add rule with a valid and an invalid label, at the end
C6_Witness ==
    /\ build_pc = "done"
    /\ \E r \in AppliedRules :
          /\ r.keys = {"add"}
          /\ r.add = {"RESPONSE_DELAYS", InvalidLabel}
          /\ "RESPONSE_DELAYS" \in expected[r.ticket_id]
          /\ \E i \in DOMAIN override_warnings :
                override_warnings[i].labels = {InvalidLabel}

\* C7 (invalid label in remove): at the end of the build, every invalid label in
\* the `remove` list of an applied rule without `keep` is named by a warning
\* recorded for the rule's ticket.
C7_InvalidRemoveWarned ==
    build_pc = "done" =>
        \A r \in AppliedRules :
            ("remove" \in r.keys /\ "keep" \notin r.keys) =>
                \A x \in r.remove \ OurPatternSet :
                    \E i \in DOMAIN override_warnings :
                        /\ override_warnings[i].tid = r.ticket_id
                        /\ x \in override_warnings[i].labels

\* C8 (exclusion is final): once the seeds are filtered, no excluded ticket is a
\* key of the expected map, and none is written; a `keep` or `add` rule for an
\* excluded ticket does not bring it back.
C8_ExclusionFinal ==
    /\ BuildFiltered => DOMAIN expected \cap excluded = {}
    /\ build_pc = "done" =>
          \A i \in DOMAIN gt_csv : gt_csv[i].ticket_id \notin excluded

\* an excluded ticket of the universe that the matrix seeds and a rule adds to
C8_Witness ==
    /\ build_pc = "done"
    /\ \E r \in Range(overrides) :
          /\ r.ticket_id \in excluded \cap universe \cap SeededIds
          /\ "add" \in r.keys /\ r.add \cap OurPatternSet # {}
          /\ r.ticket_id \notin DOMAIN expected

----------------------------------------------------------------------------
(* Properties of the text mapper                                            *)

\* the needles of the table that occur in the trimmed, lower-cased text
MatchingNeedles(text) ==
    { i \in DOMAIN PATTERN_MAPPING : Contains(PATTERN_MAPPING[i].needle, lower(strip(text))) }

\* C9 (longest match first): the mapper returns the label of a needle of maximal
\* length among the needles occurring in the trimmed, lower-cased text, and None
\* exactly when no needle occurs in it (empty and whitespace-only text included).
C9_LongestMatch ==
    map_pc = "return" =>
        LET M == MatchingNeedles(pattern_text)
        IN  /\ label = None <=> M = {}
            /\ strip(pattern_text) = <<>> => label = None
            /\ M # {} =>
                  \E i \in M :
                      /\ \A j \in M : Len(PATTERN_MAPPING[j].needle)
                                        <= Len(PATTERN_MAPPING[i].needle)
                      /\ label = PATTERN_MAPPING[i].label

\* a shorter needle (table entry 3) and a longer one (entry 7) both occur, the
\* shorter one first in the text and in the table; the longer one's label wins
C9_Witness ==
    /\ map_pc = "return"
    /\ pattern_text = Needle(3) \o Needle(7)
    /\ {3, 7} \subseteq MatchingNeedles(pattern_text)
    /\ label = "IGNORING_CONTEXT"

----------------------------------------------------------------------------
(* Properties of the evaluator                                              *)

\* the expected table and the results directory, ticket by ticket
NumTickets == Len(gt_expected)
Exp(i) == gt_expected[i].labels
Tid(i) == gt_expected[i].ticket_id
File(i) == results_dir[Tid(i)]

\* the labels a ticket's file flags with the boolean true; none without a file
Flagged(i) ==
    IF File(i).exists
    THEN { p \in OurPatternSet : File(i).data[p] = [kind |-> "dict", detected |-> "True"] }
    ELSE {}

\* the tickets evaluate_recall_only has gone through
RecallSeen ==
    IF eval_pc \in {"recall", "recall_raised"} THEN 1..tick_i
    ELSE IF eval_pc \in {"full", "full_raised", "done"} THEN 1..NumTickets
    ELSE {}

\* the tickets evaluate_full has gone through
FullSeen ==
    IF eval_pc \in {"full", "full_raised"} THEN 1..tick_i
    ELSE IF eval_pc = "done" THEN 1..NumTickets
    ELSE {}

\* the scenario of the specification: 1001 expects RESPONSE_DELAYS and its file
\* flags it, 1002 expects two labels and has no file, nothing else is expected
RecallScenario ==
    /\ NumTickets >= 2
    /\ Tid(1) = 1001 /\ Exp(1) = {"RESPONSE_DELAYS"}
    /\ File(1).exists /\ "RESPONSE_DELAYS" \in Flagged(1)
    /\ Tid(2) = 1002 /\ Exp(2) = {"AI_WALL_LOOPING", "PREMATURE_CLOSURE"}
    /\ ~File(2).exists
    /\ \A i \in 3..NumTickets : Exp(i) = {}

\* C3 (recall-only, missing file): a ticket with expected labels and no file is
\* not skipped: it is in missing_result_files and in the missed list of each of
\* its labels, each label's expected count counts it, no hit count does, it is
\* counted among the tickets with expected labels and never as fully covered;
\* in the scenario overall recall is 1/3 and ticket coverage 1/2.
C3_RecallMissingFile ==
    LET missing == { i \in RecallSeen : Exp(i) # {} /\ ~File(i).exists }
        present == { i \in RecallSeen : Exp(i) # {} /\ File(i).exists }
    IN  /\ \A i \in missing :
              /\ Tid(i) \in Range(recall.missing_result_files)
              /\ \A p \in Exp(i) : Tid(i) \in Range(recall.missed_by_label[p])
        /\ \A p \in OurPatternSet :
              /\ recall.expected_counts[p] =
                    Cardinality({ i \in missing \cup present : p \in Exp(i) })
              /\ recall.hit_counts[p] =
                    Cardinality({ i \in present : p \in Exp(i) \cap Flagged(i) })
        /\ recall.tickets_with_any_expected = Cardinality(missing \cup present)
        /\ recall.tickets_full_covered <= Cardinality(present)
        /\ (eval_pc \in {"full", "done"} /\ RecallScenario) =>
              /\ recall.total_hit = 1 /\ recall.total_expected = 3
              /\ recall.overall_recall = [num |-> 1, den |-> 3]
              /\ recall.ticket_coverage = [num |-> 1, den |-> 2]

\* the scenario, scored to the end
C3_Witness ==
    /\ eval_pc = "done"
    /\ RecallScenario
    /\ recall.missing_result_files = <<1002>>
    /\ recall.overall_recall = [num |-> 1, den |-> 3]

\* C4 (full mode, missing file): the step of evaluate_full on a ticket without a
\* file adds one false negative for each expected label of the ticket and
\* leaves every true-positive and false-positive count as it was.
C4_FullMissingFile ==
    [][ ( /\ eval_pc = "full"
          /\ tick_i < NumTickets
          /\ ~results_dir[gt_expected[tick_i + 1].ticket_id].exists
          /\ vars' # vars )
        => ( /\ tick_i' = tick_i + 1
             /\ eval_pc' = "full"
             /\ \A p \in OurPatternSet :
                   /\ full'.fn[p] = full.fn[p] + In01(p, gt_expected[tick_i + 1].labels)
                   /\ full'.tp[p] = full.tp[p]
                   /\ full'.fp[p] = full.fp[p]
             /\ full'.micro_fn = full.micro_fn
                                  + Cardinality(gt_expected[tick_i + 1].labels)
             /\ full'.micro_tp = full.micro_tp
             /\ full'.micro_fp = full.micro_fp ) ]_vars

\* evaluate_full has just scored a ticket with two expected labels and no file,
\* after a ticket with no expected label and no file
C4_Witness ==
    /\ eval_pc = "full"
    /\ tick_i = 2
    /\ ~File(1).exists /\ Exp(1) = {}
    /\ ~File(2).exists /\ Exp(2) = {"AI_WALL_LOOPING", "PREMATURE_CLOSURE"}
    /\ full.micro_fn = 2 /\ full.micro_tp = 0 /\ full.micro_fp = 0

\* C10 (full-mode classification): after any number of tickets, each label's tp
\* is the number of tickets seen that expect and predict it, fp of those that
\* only predict it, fn of those that only expect it, support of those that
\* expect it, and the micro counts are the sums; at the end, a ticket with no
\* expected label whose file flags a label has put micro precision below 1.
C10_FullClassification ==
    /\ \A p \in OurPatternSet :
          /\ full.tp[p] = Cardinality({ i \in FullSeen : p \in Exp(i) /\ p \in Flagged(i) })
          /\ full.fp[p] = Cardinality({ i \in FullSeen : p \notin Exp(i) /\ p \in Flagged(i) })
          /\ full.fn[p] = Cardinality({ i \in FullSeen : p \in Exp(i) /\ p \notin Flagged(i) })
          /\ full.support[p] = Cardinality({ i \in FullSeen : p \in Exp(i) })
    /\ full.micro_tp = SumOver(full.tp, OurPatternSet)
    /\ full.micro_fp = SumOver(full.fp, OurPatternSet)
    /\ full.micro_fn = SumOver(full.fn, OurPatternSet)
    /\ (eval_pc = "done" /\ \E i \in 1..NumTickets : Exp(i) = {} /\ Flagged(i) # {}) =>
          /\ full.micro_fp >= 1
          /\ full.micro_precision.num < full.micro_precision.den
          /\ SumOver(full.support, OurPatternSet)
                = SumOver([p \in OurPatternSet |->
                             Cardinality({ i \in 1..NumTickets : p \in Exp(i) })],
                          OurPatternSet)

\* a hit on one ticket, a spurious flag on a ticket that expects nothing
C10_Witness ==
    /\ eval_pc = "done"
    /\ NumTickets >= 2
    /\ Exp(1) = {"RESPONSE_DELAYS"} /\ Flagged(1) = {"RESPONSE_DELAYS"}
    /\ Exp(2) = {} /\ Flagged(2) = {"AI_QUALITY_FAILURES"}
    /\ full.micro_tp = 1 /\ full.micro_fp = 1 /\ full.micro_fn = 0
    /\ full.micro_precision = [num |-> 1, den |-> 2]
    /\ full.micro_recall = [num |-> 1, den |-> 1]

\* the tickets whose expected set is not empty, and those of them whose file
\* exists and flags every expected label
WithExpected == { i \in 1..NumTickets : Exp(i) # {} }
FullyCovered ==
    { i \in WithExpected : File(i).exists /\ Exp(i) \subseteq Flagged(i) }

\* C11 (full coverage): after any number of tickets, tickets_full_covered counts
\* exactly the tickets seen whose expected set is not empty, whose file exists and
\* whose expected set is a subset of the predicted set (extra predictions do not
\* matter); the coverage returned is that count over the number of tickets with a
\* non-empty expected set, 0 when there is none.
C11_FullCoverage ==
    /\ recall.tickets_full_covered = Cardinality(FullyCovered \cap RecallSeen)
    /\ recall.tickets_with_any_expected = Cardinality(WithExpected \cap RecallSeen)
    /\ eval_pc \in {"full", "full_raised", "done"} =>
          /\ recall.ticket_coverage.num * Cardinality(WithExpected)
                = Cardinality(FullyCovered) * recall.ticket_coverage.den
          /\ recall.ticket_coverage.den >= 1
          /\ WithExpected = {} => recall.ticket_coverage = Zero

\* one ticket covered although its file flags two labels it does not expect, one
\* ticket with an expected label its file carries as the string "true"
C11_Witness ==
    /\ eval_pc = "done"
    /\ NumTickets >= 2
    /\ Exp(1) = {"RESPONSE_DELAYS"}
    /\ Flagged(1) = {"RESPONSE_DELAYS", "AI_WALL_LOOPING", "PREMATURE_CLOSURE"}
    /\ Exp(2) = {"RESPONSE_DELAYS"} /\ File(2).exists /\ Flagged(2) = {"AI_WALL_LOOPING"}
    /\ recall.tickets_full_covered = 1
    /\ recall.ticket_coverage = [num |-> 1, den |-> 2]

\* the dict evaluate_recall_only returns (the record's `pred` is a local)
Returned(r) ==
    [ticket_coverage |-> r.ticket_coverage,
     tickets_full_covered |-> r.tickets_full_covered,
     tickets_with_expected |-> r.tickets_with_any_expected,
     overall_recall |-> r.overall_recall,
     total_hit |-> r.total_hit, total_expected |-> r.total_expected,
     per_label |-> [p \in OurPatternSet |->
                      [recall |-> r.per_label[p], hit |-> r.hit_counts[p],
                       expected |-> r.expected_counts[p]]],
     missed_by_label |-> r.missed_by_label,
     missing_result_files |-> r.missing_result_files]

\* two files of a ticket that differ at most by predicted labels outside its
\* expected set, or in any way when the ticket expects nothing
SameUpToExtras(exp, f, g) ==
    \/ exp = {}
    \/ f = g
    \/ /\ f.exists /\ g.exists /\ ~LoadRaises(f) /\ ~LoadRaises(g)
       /\ load_predicted_labels(f) \cap exp = load_predicted_labels(g) \cap exp

\* C12 (recall-only ignores false positives): once evaluate_recall_only has
\* ended, replacing the file of any one ticket of the table by a file that
\* differs only by predicted labels outside the ticket's expected set (or by any
\* file at all when the ticket expects nothing) gives a second evaluation that
\* ends the same way and returns the same dict: hit and expected counts, missed
\* lists, per-label and overall recall, coverage. Directories that differ in
\* several tickets are chains of such replacements.
C12_IgnoresFalsePositives ==
    eval_pc \in {"full", "recall_raised"} =>
        \A i \in 1..NumTickets : \A g \in FilePool :
            SameUpToExtras(Exp(i), File(i), g) =>
                LET other == evaluate_recall_only(
                                 gt_expected, [results_dir EXCEPT ![Tid(i)] = g])
                IN  /\ other.raised = (eval_pc = "recall_raised")
                    /\ ~other.raised => Returned(other.result) = Returned(recall)

\* the first ticket's file flags its expected label and two others, the second
\* ticket expects nothing and its file is not JSON; the evaluation of the
\* directory without the extras and without the second file returns the same
C12_Witness ==
    /\ eval_pc = "full" /\ tick_i = 0
    /\ NumTickets >= 2
    /\ Exp(1) = {"RESPONSE_DELAYS"}
    /\ Flagged(1) = {"RESPONSE_DELAYS", "AI_WALL_LOOPING", "PREMATURE_CLOSURE"}
    /\ Exp(2) = {} /\ File(2) = BadJson
    /\ recall.total_hit = 1 /\ recall.tickets_full_covered = 1
    /\ Returned(recall) =
          Returned(evaluate_recall_only(
                       gt_expected,
                       [results_dir EXCEPT
                           ![Tid(1)] = Object({"RESPONSE_DELAYS"}, BlockFalse),
                           ![Tid(2)] = NoFile]).result)

\* the labels some ticket of the table expects
Supported == { p \in OurPatternSet : \E i \in 1..NumTickets : p \in Exp(i) }

\* the F1 of a label from its definition, 2 tp / (2 tp + fp + fn), over the table
LabelF1(p) ==
    LET tpc == Cardinality({ i \in 1..NumTickets : p \in Exp(i) /\ p \in Flagged(i) })
        fpc == Cardinality({ i \in 1..NumTickets : p \notin Exp(i) /\ p \in Flagged(i) })
        fnc == Cardinality({ i \in 1..NumTickets : p \in Exp(i) /\ p \notin Flagged(i) })
    IN  IF tpc = 0 THEN Zero ELSE Frac(2 * tpc, 2 * tpc + fpc + fnc)

\* C13 (macro F1 over supported labels): at the end of evaluate_full, macro F1
\* times the number of labels with support equals the sum of the F1 of those
\* labels only (the F1 and the false positives of a label nobody expects enter
\* neither side), and macro F1 is 0 when no label has support.
C13_MacroF1 ==
    eval_pc = "done" =>
        /\ \A p \in OurPatternSet : full.per_label[p].f1 = LabelF1(p)
        /\ FracMul(full.macro_f1, FromInt(Cardinality(Supported)))
              = FracSum([p \in OurPatternSet |-> LabelF1(p)], Supported)
        /\ Supported = {} => full.macro_f1 = Zero

\* one supported label, always hit; a label nobody expects has a false positive
C13_Witness ==
    /\ eval_pc = "done"
    /\ NumTickets >= 2
    /\ Exp(1) = {"RESPONSE_DELAYS"} /\ Flagged(1) = {"RESPONSE_DELAYS"}
    /\ Exp(2) = {} /\ Flagged(2) = {"AI_QUALITY_FAILURES"}
    /\ full.fp["AI_QUALITY_FAILURES"] = 1 /\ full.support["AI_QUALITY_FAILURES"] = 0
    /\ full.macro_f1 = [num |-> 1, den |-> 1]

\* a ratio that was computed: a fraction between 0 and 1, not a raised division
IsRatio(x) == x.den >= 1 /\ 0 <= x.num /\ x.num <= x.den

\* C14 (division by zero): every ratio evaluate_recall_only returns, and every
\* ratio evaluate_full returns, is a number between 0 and 1, and is 0 when its
\* denominator is zero: per-label recall with no expected occurrence, overall
\* recall and coverage of a table that expects nothing (the empty table
\* included), precision with nothing predicted, F1 with precision + recall = 0,
\* macro F1 with no supported label.
C14_DivisionByZero ==
    /\ eval_pc \in {"full", "full_raised", "done"} =>
          /\ IsRatio(recall.overall_recall)
          /\ recall.total_expected = 0 => recall.overall_recall = Zero
          /\ IsRatio(recall.ticket_coverage)
          /\ recall.tickets_with_any_expected = 0 => recall.ticket_coverage = Zero
          /\ \A p \in OurPatternSet :
                /\ IsRatio(recall.per_label[p])
                /\ recall.expected_counts[p] = 0 => recall.per_label[p] = Zero
    /\ eval_pc = "done" =>
          /\ IsRatio(full.micro_precision) /\ IsRatio(full.micro_recall)
          /\ IsRatio(full.micro_f1) /\ IsRatio(full.macro_f1)
          /\ full.micro_tp + full.micro_fp = 0 => full.micro_precision = Zero
          /\ full.micro_tp + full.micro_fn = 0 => full.micro_recall = Zero
          /\ full.micro_tp = 0 => full.micro_f1 = Zero
          /\ (\A p \in OurPatternSet : full.support[p] = 0) => full.macro_f1 = Zero
          /\ \A p \in OurPatternSet :
                LET m == full.per_label[p]
                IN  /\ IsRatio(m.precision) /\ IsRatio(m.recall) /\ IsRatio(m.f1)
                    /\ full.tp[p] + full.fp[p] = 0 => m.precision = Zero
                    /\ full.tp[p] + full.fn[p] = 0 => m.recall = Zero
                    /\ full.tp[p] = 0 => m.f1 = Zero

\* both evaluations of an empty expected table have returned, every ratio 0
C14_Witness ==
    /\ eval_pc = "done"
    /\ gt_csv = <<>> /\ NumTickets = 0
    /\ recall.total_expected = 0 /\ recall.overall_recall = Zero
    /\ recall.ticket_coverage = Zero
    /\ full.micro_precision = Zero /\ full.micro_f1 = Zero /\ full.macro_f1 = Zero

\* the labels whose value in the file is a mapping with `detected` the boolean
\* true; every other shape of the value is left out
StrictlyDetected(file) ==
    { p \in OurPatternSet : file.data[p] = [kind |-> "dict", detected |-> "True"] }

\* the ticket whose file the last step of evaluate_full, and of the recall-first
\* script, has loaded (0 when there is none)
LastFullLoaded ==
    IF eval_pc = "full" /\ tick_i >= 1 /\ File(tick_i).exists THEN tick_i ELSE 0
LastRfLoaded ==
    IF rf_pc = "score" /\ rf_i >= 1 /\ Exp(rf_i) # {} THEN rf_i ELSE 0

\* C15 (strict boolean detection): the predicted set either loader returns for a
\* prediction object holds a label exactly when the object's value for it is a
\* mapping whose `detected` is the boolean true; a missing key, detected false,
\* the string "true", a missing `detected` and a value that is not a mapping
\* leave the label out; and a loader raises only on a file that is not a JSON
\* object.
C15_StrictDetection ==
    /\ LastFullLoaded # 0 => full.pred = StrictlyDetected(File(LastFullLoaded))
    /\ LastRfLoaded # 0 => recall_first.pred = StrictlyDetected(File(LastRfLoaded))
    /\ \A f \in FilePool :
          f.json = "object" =>
              /\ load_predicted_labels(f) = StrictlyDetected(f)
              /\ _load_predicted(f) = StrictlyDetected(f)
    /\ eval_pc = "recall_raised" => File(tick_i + 1).json # "object"
    /\ eval_pc = "full_raised" => File(tick_i + 1).json # "object"
    /\ rf_pc = "raised_load" => File(rf_i + 1).json # "object"

\* evaluate_full has loaded a file that flags one label with the boolean and
\* carries the string "true" for the five others
C15_Witness ==
    /\ eval_pc = "full" /\ tick_i = 1
    /\ File(1) = Object({"AI_WALL_LOOPING"}, BlockStrTrue)
    /\ File(1).data["RESPONSE_DELAYS"].detected = "'true'"
    /\ full.pred = {"AI_WALL_LOOPING"}

\* C16 (missing prediction files are not fatal): no evaluator entry point run on
\* an existing ground-truth file and an existing results directory raises because
\* the directory lacks the file of an expected ticket; evaluate.main raises only
\* on a file that exists and does not load, and folds every missing file into
\* its lists of missing result files.
C16_MissingFilesNotFatal ==
    /\ rf_pc # "raised_missing"
    /\ eval_pc \in {"recall_raised", "full_raised"} => File(tick_i + 1).exists
    /\ eval_pc = "done" =>
          \A i \in 1..NumTickets :
              ~File(i).exists => Tid(i) \in Range(full.missing_result_files)

\* C17 (one bad ticket never invalidates the run): evaluate_recall_only and
\* evaluate_full never end by raising; whatever the files of the directory hold,
\* each of them returns.
C17_BadFileIsolated ==
    eval_pc \notin {"recall_raised", "full_raised"}

----------------------------------------------------------------------------
(* Properties of the seeding loop of the builder                            *)

\* the label of each description a row may carry, computed once
KnownLabels ==
    { <<r.pattern, map_pattern_to_label(clean_or_empty(r.pattern))>> :
        r \in RowPool \cup {SpacerRow, NoneRow} }

\* the label a row of the matrix maps to, and the rows paired with their labels
RowLabel(j) == (CHOOSE q \in KnownLabels : q[1] = patterns_df[j].pattern)[2]
LabelledRows == { <<j, RowLabel(j)>> : j \in DOMAIN patterns_df }

\* the text under which an unmapped row is counted: the description trimmed,
\* empty for an empty or null-like ("nan", "none", "null") description
RowText(j) == strip(clean_or_empty(patterns_df[j].pattern))

\* the description as it stands in the sheet, trimmed
RawText(j) == strip(patterns_df[j].pattern)

\* the rows the loop has gone through
RowsSeen == IF build_pc \in {"universe", "idle", "raised"} THEN {} ELSE 1..row_i

\* the labels, taken from the pairs labs, of the mapped rows among `rows` in
\* which ticket t occurs
LabelsOf(labs, t, rows) ==
    { q[2] : q \in { r \in labs : /\ r[1] \in rows /\ r[2] # None
                                  /\ t \in RowTicketIds(patterns_df[r[1]]) } }

\* the matrix with its rows in reverse order, and with its first row moved to
\* the end: the two reorderings every other one is made of
Reversed == [j \in DOMAIN patterns_df |-> patterns_df[Len(patterns_df) + 1 - j]]
Rotated == IF patterns_df = <<>> THEN <<>>
           ELSE Append(Tail(patterns_df), Head(patterns_df))

\* the filter has just run and no override has been applied yet
BeforeOverrides == build_pc = "overrides" /\ rule_i = 0

\* C18 (union semantics): while the rows are read, each ticket holds exactly the
\* labels of the mapped rows read so far in which its id occurs, in whatever
\* column; so nothing accumulated is lost. Before the overrides, the expected
\* set of every in-universe, non-excluded ticket is the set of labels of all such
\* rows, no other ticket is kept, and the seeding loop run on the rows reversed
\* or rotated (hence, every matrix being checked, on any reordering of them)
\* gives the same map.
C18_UnionSemantics ==
    /\ build_pc = "rows" =>
          LET labs == LabelledRows
          IN  /\ \A t \in DOMAIN expected : expected[t] = LabelsOf(labs, t, RowsSeen)
              /\ \A t \in BuildTids :
                    LabelsOf(labs, t, RowsSeen) # {} => t \in DOMAIN expected
    /\ BeforeOverrides =>
          LET labs == LabelledRows
          IN  /\ \A t \in universe \ excluded :
                    IF LabelsOf(labs, t, DOMAIN patterns_df) = {}
                    THEN t \notin DOMAIN expected
                    ELSE /\ t \in DOMAIN expected
                         /\ expected[t] = LabelsOf(labs, t, DOMAIN patterns_df)
              /\ DOMAIN expected \subseteq universe \ excluded
              /\ \A rows \in {Reversed, Rotated} :
                    FilterSeeds(SeedLoop(rows, 1, EmptyMap), universe, excluded)
                        = expected

\* ticket 100001 occurs in two mapped rows (first column), ticket 100002 in the
\* second column of one of them; both are kept, with two labels and one
C18_Witness ==
    /\ BeforeOverrides
    /\ Len(patterns_df) = 2
    /\ RowLabel(1) = "RESPONSE_DELAYS" /\ RowLabel(2) = "AI_WALL_LOOPING"
    /\ DOMAIN expected = {100001, 100002}
    /\ expected[100001] = {"AI_WALL_LOOPING", "RESPONSE_DELAYS"}
    /\ expected[100002] = {"AI_WALL_LOOPING"}

\* C19 as stated (unmapped rows are isolated): at the end of the build, every
\* row that maps to no label and whose raw text is not empty is counted in the
\* unmapped diagnostic under that text.
C19_AsStated ==
    build_pc = "done" =>
        \A j \in DOMAIN patterns_df :
            (RowLabel(j) = None /\ RawText(j) # <<>>) =>
                /\ RawText(j) \in DOMAIN unmapped_patterns
                /\ unmapped_patterns[RawText(j)] >= 1

\* C19 as amended: among the rows read so far, the unmapped ones have given no
\* label to any ticket, each of them whose text is neither empty nor null-like
\* is counted once under that text in the unmapped diagnostic (and nothing else
\* is), and the loop goes on to the last row: the build passes the filter only
\* with every row read. A ticket named by unmapped rows only is written only if
\* an applied override brings it in.
C19_UnmappedIsolated ==
    (build_pc = "rows" \/ BeforeOverrides \/ build_pc = "done") =>
        LET labs == LabelledRows
            unmapped == { j \in RowsSeen : <<j, None>> \in labs }
        IN  /\ \A text \in DOMAIN unmapped_patterns :
                  /\ text # <<>>
                  /\ unmapped_patterns[text]
                        = Cardinality({ j \in unmapped : RowText(j) = text })
            /\ \A j \in unmapped :
                  RowText(j) # <<>> => RowText(j) \in DOMAIN unmapped_patterns
            /\ build_pc = "rows" =>
                  \A t \in DOMAIN expected :
                      expected[t] \subseteq LabelsOf(labs, t, RowsSeen \ unmapped)
            /\ BuildFiltered => row_i = Len(patterns_df)
            /\ build_pc = "done" =>
                  \A i \in DOMAIN gt_csv :
                      \A j \in unmapped :
                          gt_csv[i].ticket_id \in RowTicketIds(patterns_df[j]) =>
                              \/ LabelsOf(labs, gt_csv[i].ticket_id,
                                          DOMAIN patterns_df) # {}
                              \/ \E r \in AppliedRules :
                                    r.ticket_id = gt_csv[i].ticket_id

\* an unmapped row naming ticket 100002 of the universe is followed by a mapped
\* row: the text is counted once, the later row is read, the build completes and
\* the ticket has the label of the mapped row only
C19_Witness ==
    /\ build_pc = "done"
    /\ Len(patterns_df) = 2
    /\ RowLabel(1) = None /\ RowText(1) = <<"z","z">>
    /\ 100002 \in RowTicketIds(patterns_df[1]) /\ 100002 \in universe
    /\ RowLabel(2) = "AI_WALL_LOOPING"
    /\ unmapped_patterns = (<<"z","z">> :> 1)
    /\ overrides = <<>>
    /\ 100002 \in DOMAIN expected /\ expected[100002] = {"AI_WALL_LOOPING"}

----------------------------------------------------------------------------
(* Properties of the universe loads                                         *)

\* the ids of the cells that hold an integer, blanks around it aside
ParsedIds(cells) ==
    { ToInt(strip(cells[i])) : i \in { j \in DOMAIN cells : IsDigits(strip(cells[j])) } }

\* the "Ticket ID" cells of the rows load_csv_context reads (none for a short row)
CtxCells ==
    [i \in { j \in DOMAIN ctx_csv.rows : ~ctx_csv.rows[j].tid_raw.none } |->
        ctx_csv.rows[i].tid_raw.text]

\* C20 (tolerant universe load): neither load of the ticket universe raises on a
\* row whose ticket id is blank or not an integer, and each loads every other
\* row: the builder never ends in its universe load and goes on with the ids of
\* all the parsable rows; load_csv_context raises only for a missing
\* "Ticket ID" column and returns the parsable rows' ids.
C20_TolerantUniverseLoad ==
    /\ build_pc # "raised"
    /\ build_pc \in {"rows", "overrides", "done"} => universe = ParsedIds(universe_csv)
    /\ ctx_pc = "raised" => "Ticket ID" \notin ctx_csv.fieldnames
    /\ ctx_pc = "done" => DOMAIN out = ParsedIds(CtxCells)

----------------------------------------------------------------------------
(* Properties of a repeated build                                           *)

----------------------------------------------------------------------------
(* Properties of call_llm                                                   *)

\* the requests made so far, and the sleeps
Creates == SelectSeq(llm_trace, LAMBDA e : e.ev = "create")
Sleeps == SelectSeq(llm_trace, LAMBDA e : e.ev = "sleep")
LastCreate == Creates[Len(Creates)]

\* a parsed value written back as compact JSON text
RECURSIVE Dump(_)
RECURSIVE DumpMembers(_, _)
Dump(v) ==
    CASE v.kind = "number" -> v.text
      [] v.kind = "string" -> <<"\"">> \o v.text \o <<"\"">>
      [] v.kind = "null" -> <<"n", "u", "l", "l">>
      [] v.kind = "object" -> <<"{">> \o DumpMembers(v.members, 1) \o <<"}">>

DumpMembers(ms, i) ==
    IF i > Len(ms) THEN <<>>
    ELSE (IF i > 1 THEN <<",">> ELSE <<>>)
         \o <<"\"">> \o ms[i].key \o <<"\"", ":">> \o Dump(ms[i].value)
         \o DumpMembers(ms, i + 1)

\* a response text without the blanks JSON allows between its tokens
NoBlanks(text) == SelectSeq(text, LAMBDA c : c \notin {" ", "\t", "\n", "\r"})

\* C22: bounded retries and a fail-closed result. Whatever the API answers,
\* call_llm makes at most max_retries + 1 requests, one per iteration; what it
\* returns is None or the value of the whole text of one response (written
\* back as JSON it is that text, blanks aside), never the value of a part of a
\* text; and no exception of the API call leaves the loop (only an interrupt
\* of the program does).
C22_BoundedFailClosed ==
    /\ Len(Creates) <= _retries + 1
    /\ llm_pc = "loop" => Len(Creates) = attempt
    /\ llm_pc = "returned" =>
          \/ llm_result.is_none
          \/ /\ Creates # <<>>
             /\ LastCreate.outcome.kind = "response"
             /\ LastCreate.outcome.has_content
             /\ Dump(llm_result.value) = NoBlanks(LastCreate.outcome.content)
    /\ llm_pc = "raised" => LastCreate.outcome.class = "KeyboardInterrupt"
    /\ llm_pc \in {"loop", "returned", "raised"}

\* the last permitted request, made after retries, is answered with an object
\* that is returned
C22_Witness ==
    /\ llm_pc = "returned" /\ ~llm_result.is_none
    /\ _retries >= 1 /\ Len(Creates) = _retries + 1
    /\ llm_result.value.kind = "object" /\ llm_result.value.members # <<>>

\* the answers that end the call at once: the errors the docstring of
\* _is_retryable_error lists as non-retryable, an exception of no API class, a
\* status error below 500 that is no rate limit, and a response without text
EndsCall(outcome) ==
    IF outcome.kind = "error"
    THEN \/ outcome.class \in {"AuthenticationError", "BadRequestError",
                               "NotFoundError", "PermissionDeniedError", "IndexError"}
         \/ outcome.class \in {"ConflictError", "APIStatusError"}
               /\ outcome.status_code < 500
    ELSE ~outcome.has_content \/ \A i \in DOMAIN outcome.content :
                                     outcome.content[i] \in {" ", "\t", "\n"}

\* the answers worth another attempt: rate limit, connection and server errors,
\* and a text that is no JSON
WorthRetry(outcome) ==
    IF outcome.kind = "error"
    THEN \/ outcome.class \in {"RateLimitError", "APIConnectionError",
                               "APITimeoutError", "InternalServerError"}
         \/ outcome.class = "APIStatusError" /\ outcome.status_code >= 500
    ELSE ~EndsCall(outcome) /\ ~json_loads(outcome.content).ok

\* C23: retry decisions of call_llm. A non-retryable error and a response
\* without text each are the last thing the call does before it returns None:
\* no request and no sleep follow. A retryable error or a JSON parse error is
\* followed by one sleep and then the next request when attempts remain, and by
\* neither after the final attempt; nothing else makes the call sleep.
C23_RetryDecisions ==
    \A k \in DOMAIN llm_trace :
        LET e == llm_trace[k]
        IN  /\ (e.ev = "create" /\ EndsCall(e.outcome)) =>
                  /\ k = Len(llm_trace)
                  /\ llm_pc = "returned" /\ llm_result = LlmNone
            /\ (e.ev = "create" /\ WorthRetry(e.outcome) /\ e.attempt < _retries) =>
                  /\ k < Len(llm_trace)
                  /\ llm_trace[k + 1].ev = "sleep" /\ llm_trace[k + 1].delay > 0
                  /\ IF k + 1 < Len(llm_trace)
                     THEN /\ llm_trace[k + 2].ev = "create"
                          /\ llm_trace[k + 2].attempt = e.attempt + 1
                     ELSE llm_pc = "loop" /\ attempt = e.attempt + 1
            /\ (e.ev = "create" /\ WorthRetry(e.outcome) /\ e.attempt >= _retries) =>
                  /\ k = Len(llm_trace)
                  /\ llm_pc = "loop" \/ (llm_pc = "returned" /\ llm_result = LlmNone)
            /\ e.ev = "sleep" =>
                  /\ k > 1 /\ llm_trace[k - 1].ev = "create"
                  /\ WorthRetry(llm_trace[k - 1].outcome)
                  /\ e.attempt < _retries

\* a call with two retries: a rate limit, a text that is no JSON and a server
\* error; two sleeps, none after the last of them, and None is returned
C23_Witness ==
    /\ llm_pc = "returned" /\ llm_result = LlmNone /\ _retries = 2
    /\ Len(Creates) = 3 /\ Len(Sleeps) = 2
    /\ Creates[1].outcome.class = "RateLimitError"
    /\ Creates[2].outcome.kind = "response"
    /\ Creates[3].outcome.class = "InternalServerError"
    /\ llm_trace[Len(llm_trace)].ev = "create"

----------------------------------------------------------------------------
(* Properties of the override loop                                          *)

\* the rule the override loop is about to handle, and the one it just handled
RuleAt(i) == overrides[i]
ListOf(rule, key) ==
    IF key \notin rule.keys THEN {}
    ELSE IF key = "remove" THEN rule.remove
    ELSE IF key = "add" THEN rule.add
    ELSE rule.keep
BaseOf(tid) == IF tid \in DOMAIN expected THEN expected[tid] ELSE {}

\* C24: remove-then-add order. When the override loop applies a rule without
\* `keep` (its ticket is in the universe and not excluded), a vocabulary label
\* listed in both `remove` and `add` is in the ticket's set afterwards, a label
\* listed only in `remove` is not, a vocabulary label listed only in `add` is,
\* every other label is in the set exactly if it was before, and the sets of
\* all other tickets are as they were.
C24_RemoveThenAdd ==
    [][ (build_pc = "overrides" /\ rule_i' = rule_i + 1) =>
          LET rule == RuleAt(rule_i + 1)
              tid == rule.ticket_id
              rem == ListOf(rule, "remove")
              add == ListOf(rule, "add")
          IN  (tid \in universe /\ tid \notin excluded /\ "keep" \notin rule.keys) =>
                /\ DOMAIN expected' = DOMAIN expected \cup {tid}
                /\ \A l \in OurPatternSet \cup {InvalidLabel} :
                      /\ (l \in rem \cap add /\ l \in OurPatternSet) => l \in expected'[tid]
                      /\ (l \in rem \ add) => l \notin expected'[tid]
                      /\ (l \in add \ rem /\ l \in OurPatternSet) => l \in expected'[tid]
                      /\ (l \notin rem \cup add) => (l \in expected'[tid] <=> l \in BaseOf(tid))
                /\ \A t \in DOMAIN expected \ {tid} : expected'[t] = expected[t] ]_vars

\* a rule that lists one vocabulary label in `remove` and in `add` has been
\* applied to a ticket that the matrix seeded with that label and with another
\* one, next to a second seeded ticket
C24_Witness ==
    /\ build_pc = "overrides" /\ rule_i >= 1
    /\ LET rule == RuleAt(rule_i)
           tid == rule.ticket_id
           seeds == SeedLoop(patterns_df, 1, EmptyMap)
       IN  /\ tid \in universe /\ tid \notin excluded
           /\ rule.keys = {"remove", "add"}
           /\ \E l \in OurPatternSet :
                 /\ l \in rule.remove \cap rule.add
                 /\ tid \in DOMAIN seeds /\ l \in seeds[tid] /\ seeds[tid] # {l}
                 /\ l \in expected[tid] /\ expected[tid] = seeds[tid]
           /\ DOMAIN expected # {tid}

\* the tickets the matrix seeds, whatever the universe
MatrixSeeds == DOMAIN SeedLoop(patterns_df, 1, EmptyMap)

\* the row of the output file for a ticket, if there is one
RowsFor(tid) == { i \in DOMAIN gt_csv : gt_csv[i].ticket_id = tid }

\* C25: overrides can seed tickets. When the build is done, every override rule
\* for a ticket that is in the universe and not excluded, and that no row of the
\* matrix seeded, has put the ticket into the ground truth with the labels the
\* rule gives an empty base set (the vocabulary labels of `keep`, or else of
\* `add`); the output file has one row for the ticket, also when that label set
\* is empty.
C25_OverrideSeeds ==
    build_pc = "done" =>
        \A k \in DOMAIN overrides :
            LET rule == RuleAt(k)
                tid == rule.ticket_id
                given == IF "keep" \in rule.keys THEN rule.keep
                         ELSE ListOf(rule, "add")
            IN  (tid \in universe /\ tid \notin excluded /\ tid \notin MatrixSeeds) =>
                  /\ tid \in DOMAIN expected
                  /\ expected[tid] = given \cap OurPatternSet
                  /\ Cardinality(RowsFor(tid)) = 1
                  /\ \A i \in RowsFor(tid) : Range(gt_csv[i].labels) = expected[tid]

\* the build is done; a rule with only `remove` named a ticket of the universe
\* that no row seeded, and the output has a row for it with no label, next to
\* the row of a seeded ticket
C25_Witness ==
    /\ build_pc = "done"
    /\ \E k \in DOMAIN overrides :
          /\ RuleAt(k).keys = {"remove"}
          /\ RuleAt(k).ticket_id \in universe \ (excluded \cup MatrixSeeds)
          /\ \E i \in RowsFor(RuleAt(k).ticket_id) : gt_csv[i].labels = <<>>
    /\ \E i \in DOMAIN gt_csv : gt_csv[i].labels # <<>>

----------------------------------------------------------------------------
(* Properties of the detection run                                          *)

\* a result is trusted when it is an object with at least one of the six keys
Trusted(res) == res.kind = "dict" /\ \E p \in OurPatternSet : p \in res.names

\* the result files a step created or overwrote
Touched == { t \in DOMAIN output_dir' :
               t \notin DOMAIN output_dir \/ output_dir'[t] # output_dir[t] }

\* C26: a detection run writes only trusted results. The tickets selected for
\* processing are those of the list whose result file is absent, or all of
\* them under --force. In every iteration of the loop the only file that may
\* be created or overwritten is the one of the ticket at hand, and only when
\* its analysis gave an object with at least one of the six keys; after a
\* failed analysis (None) the empty count goes up by one, after any other
\* result without one of the six keys the malformed count goes up by one, and
\* in both cases no file is written or removed.
C26_TrustedWrites ==
    [][ /\ det_pc = "select" =>
              /\ output_dir' = output_dir
              /\ \A t \in DetTids :
                    (\E i \in DOMAIN to_process' : to_process'[i] = t)
                        <=> /\ \E i \in DOMAIN ticket_ids : ticket_ids[i] = t
                            /\ force \/ t \notin DOMAIN output_dir
        /\ (det_pc = "loop" /\ det_i < Len(to_process)) =>
              LET tid == to_process[det_i + 1]
                  res == result'
              IN  /\ DOMAIN output_dir \subseteq DOMAIN output_dir'
                  /\ Touched \subseteq {tid}
                  /\ Touched # {} => Trusted(res)
                  /\ Trusted(res) =>
                        /\ tid \in DOMAIN output_dir' /\ output_dir'[tid].id = res.id
                        /\ <<ok', empty', malformed'>> = <<ok + 1, empty, malformed>>
                  /\ res.kind = "None" =>
                        /\ output_dir' = output_dir
                        /\ <<ok', empty', malformed'>> = <<ok, empty + 1, malformed>>
                  /\ (res.kind # "None" /\ ~Trusted(res)) =>
                        /\ output_dir' = output_dir
                        /\ <<ok', empty', malformed'>> = <<ok, empty, malformed + 1>> ]_vars

----------------------------------------------------------------------------
(* Properties of the pipeline runner                                        *)

\* a step is selected when --step names it, or, without --step, when it is not
\* before the --from step; and it is not skipped
Selected(step) ==
    /\ args.step # NoStep => step = args.step
    /\ (args.step = NoStep /\ args.from_step # NoStep) =>
          \E i, j \in 1..5 : /\ STEP_ORDER[i] = args.from_step
                             /\ STEP_ORDER[j] = step /\ i <= j
    /\ step \notin args.skip

\* the position of a step in the fixed order
OrderOf(step) ==
    CASE step = "sample" -> 1 [] step = "fetch" -> 2 [] step = "detect" -> 3
      [] step = "eval" -> 4 [] step = "summarize" -> 5

\* the scripts started so far, and the events that stop the run
Starts == SelectSeq(pipe_trace, LAMBDA e : e.ev = "start")
Stops(e) == (e.ev = "check" /\ ~e.ok) \/ (e.ev = "start" /\ e.code # 0)

\* C27: pipeline ordering and halting. The scripts run_pipeline starts are
\* those of selected, non-skipped steps, in the order sample, fetch, detect,
\* eval, summarize, none of them twice and none before every selected step in
\* front of it has been started; each start directly follows a passed
\* prerequisite check of the same step; a failed check or a non-zero exit code
\* is the last thing that happens before the summary, and the process then
\* exits with status 1; a run in which nothing failed starts every selected
\* step and does not exit with status 1.
C27_OrderAndHalt ==
    /\ \A k \in DOMAIN Starts :
          /\ Selected(Starts[k].step)
          /\ \A s \in StepSet :
                (Selected(s) /\ OrderOf(s) < OrderOf(Starts[k].step)) =>
                    \E j \in 1..(k - 1) : Starts[j].step = s
          /\ \A j \in 1..(k - 1) : OrderOf(Starts[j].step) < OrderOf(Starts[k].step)
    /\ \A k \in DOMAIN pipe_trace :
          /\ pipe_trace[k].ev = "start" =>
                /\ k > 1 /\ pipe_trace[k - 1].ev = "check"
                /\ pipe_trace[k - 1].ok /\ pipe_trace[k - 1].step = pipe_trace[k].step
          /\ Stops(pipe_trace[k]) =>
                /\ k = Len(pipe_trace)
                /\ pipe_pc \in {"summary", "done"}
                /\ pipe_pc = "done" => exit_status = 1
    /\ (pipe_pc = "done" /\ \A k \in DOMAIN pipe_trace : pipe_trace[k].ok) =>
          /\ exit_status = 0
          /\ \A s \in StepSet : Selected(s) => \E j \in DOMAIN Starts : Starts[j].step = s

\* a run from `fetch` on that skips `detect`: fetch succeeds, the script of
\* eval exits non-zero, summarize is never started, the exit status is 1
C27_Witness ==
    /\ pipe_pc = "done" /\ exit_status = 1
    /\ args.step = NoStep /\ args.from_step = "fetch" /\ args.skip = {"detect"}
    /\ Len(Starts) = 2
    /\ Starts[1].step = "fetch" /\ Starts[1].code = 0
    /\ Starts[2].step = "eval" /\ Starts[2].code # 0

----------------------------------------------------------------------------
\* C28: interaction selection fits the budget: whenever
\* _smart_select_interactions reports truncation, the total length of the
\* chunks it returns, the omission markers included, does not exceed
\* max_chars.
C28_FitsBudget ==
    (sel_pc = "returned" /\ selected.was_truncated)
        => TotalLen(selected.chunks) <= max_chars

----------------------------------------------------------------------------
\* C29: the two scoring modes agree on recall: when both have returned (every
\* prediction file is valid or missing), recall-only total_hit equals the
\* full-mode micro true positives, total_expected equals micro true positives
\* plus micro false negatives, each label's hit and expected counts equal the
\* full-mode tp and support, overall recall equals micro recall and the
\* per-label recalls coincide.
C29_ModesAgree ==
    eval_pc = "done" =>
        /\ recall.total_hit = full.micro_tp
        /\ recall.total_expected = full.micro_tp + full.micro_fn
        /\ \A p \in OurPatternSet :
              /\ recall.hit_counts[p] = full.tp[p]
              /\ recall.expected_counts[p] = full.support[p]
              /\ recall.per_label[p] = full.per_label[p].recall
        /\ recall.overall_recall = full.micro_recall

\* both modes have scored a table with a hit, a miss on a missing file and a
\* false positive
C29_Witness ==
    /\ eval_pc = "done"
    /\ recall.total_hit > 0
    /\ recall.total_expected > recall.total_hit
    /\ recall.missing_result_files # <<>>
    /\ full.micro_fp > 0
    /\ recall.overall_recall = full.micro_recall

----------------------------------------------------------------------------
\* the length of each label's missed list
MissedCounts == [p \in OurPatternSet |-> Len(recall.missed_by_label[p])]

\* C30: count conservation in the evaluators: after any prefix of the tickets,
\* in recall-only mode each label's expected count equals its hit count plus
\* the length of its missed list and tickets_full_covered never exceeds
\* tickets_with_any_expected; in full mode each label's support equals its tp
\* plus fn, and the micro tp, fp and fn each equal the sum of the per-label
\* counts.
C30_Conservation ==
    /\ \A p \in OurPatternSet :
          /\ recall.expected_counts[p] = recall.hit_counts[p] + MissedCounts[p]
          /\ full.support[p] = full.tp[p] + full.fn[p]
    /\ recall.tickets_full_covered <= recall.tickets_with_any_expected
    /\ full.micro_tp = SumOver(full.tp, OurPatternSet)
    /\ full.micro_fp = SumOver(full.fp, OurPatternSet)
    /\ full.micro_fn = SumOver(full.fn, OurPatternSet)

\* full mode is between two tickets, and both modes have counted a hit, a miss
\* and a fully covered ticket
C30_Witness ==
    /\ eval_pc = "full" /\ tick_i = 1 /\ Len(gt_expected) = 2
    /\ recall.tickets_full_covered = 1 /\ recall.tickets_with_any_expected = 2
    /\ SumOver(recall.hit_counts, OurPatternSet) > 0
    /\ SumOver(MissedCounts, OurPatternSet) > 0
    /\ full.micro_tp > 0 /\ full.micro_fp > 0

====
